---- MODULE Spec2Model ----
(***************************************************************************)
(* Model of the colour conversion library (src/color.c, src/color.h).      *)
(*                                                                         *)
(* A struct color is a record [type, extra, v, sym]:                       *)
(*   type, extra  the two uint8_t fields of the struct;                    *)
(*   v            the three payload slots of the union, in declaration     *)
(*                order.  A double is a fixed-point integer counting       *)
(*                1/Unit steps, a uint8_t field is its code 0..255;        *)
(*   sym          the edges applied to v that the model does not evaluate  *)
(*                (pow, sqrt, atan2, cos, sin and the CIE matrices), kept  *)
(*                as a term: a sequence of <<function name, parameter>>.   *)
(*                While sym is empty v is the numeric payload.             *)
(*                                                                         *)
(* An edge function returns [c, fail]: the struct as the function left it  *)
(* and the text of the assertion that failed in it ("" when none did).     *)
(* Assertions are modelled as compiled in (no NDEBUG): a failed assert     *)
(* aborts the call.                                                        *)
(***************************************************************************)
EXTENDS Integers, Sequences, FiniteSets, TLC

VARIABLES
    c,          \* c[t]: the struct color that call t converts in place
    new_type,   \* new_type[t], new_extra[t]: the arguments of call t
    new_extra,
    pc,         \* "idle", "loop", "done" or "aborted" (an assertion failed)
    hops,       \* edge functions called by the loop of call t so far
    trace,      \* <<function, c->type, c->extra>> after each of them
    failed,     \* the assertion that aborted call t, "" when none
    dst,        \* what color_extract_components wrote for the caller
    src,        \* the struct as the caller passed it in
    orig,       \* on a way back: the struct before the way out
    fin         \* a call of finish_HSL_to_RGB on double arguments

vars == <<c, new_type, new_extra, pc, hops, trace, failed, dst, src, orig, fin>>

----------------------------------------------------------------------------
(* enum color_type, src/color.h *)
COLOR_NONE == 0
COLOR_RGB8 == 1
COLOR_RGB == 2
COLOR_LINEAR_RGB == 3
COLOR_HSL == 4
COLOR_HSV == 5
COLOR_YUV == 6
COLOR_YCBCR == 7
COLOR_YDBDR == 8
COLOR_YIQ == 9
COLOR_XYZ == 10
COLOR_XYY == 11
COLOR_LAB == 12
COLOR_LUV == 13
COLOR_LCHAB == 14
COLOR_LCHUV == 15
COLOR_LSHUV == 16
COLOR_DUMMY_END == 17

(* enum color_extra, src/color.h *)
COLOR_YUV_MAT_MASK == 3
COLOR_YCBCR_FULL_RANGE == 4

(* The valid, non-sentinel spaces. *)
Spaces == (COLOR_NONE + 1) .. (COLOR_DUMMY_END - 1)

(* extra & COLOR_YUV_MAT_MASK, extra & COLOR_YCBCR_FULL_RANGE and
   extra & ~COLOR_YCBCR_FULL_RANGE on a uint8_t. *)
MatrixOf(extra) == extra % (COLOR_YUV_MAT_MASK + 1)

RangeBit(extra) == (extra \div COLOR_YCBCR_FULL_RANGE) % 2

ClearRange(extra) == extra - COLOR_YCBCR_FULL_RANGE * RangeBit(extra)

----------------------------------------------------------------------------
(* Fixed-point arithmetic standing for the C doubles. *)

(* One unit of a double payload field is 1/Unit. *)
Unit == 1000

(* Matrix coefficients are held in steps of 1/CoefUnit. *)
CoefUnit == 100000

Abs(x) == IF x < 0 THEN -x ELSE x

Min2(a, b) == IF a < b THEN a ELSE b

Max2(a, b) == IF a > b THEN a ELSE b

(* a / b rounded to the nearest integer, b # 0. *)
RoundDiv(a, b) ==
    IF b > 0 THEN (2 * a + b) \div (2 * b) ELSE (2 * (-a) + (-b)) \div (2 * (-b))

(* The product and the quotient of two fixed-point doubles. *)
MulQ(a, b) == RoundDiv(a * b, Unit)

DivQ(a, b) == RoundDiv(a * Unit, b)

(* a*ka + b*kb + c*kc with coefficients in steps of 1/CoefUnit. *)
Dot3(a, ka, b, kb, cc, kc) == RoundDiv(a * ka + b * kb + cc * kc, CoefUnit)

(* x < 0.0 ? 0 : x > 255.0 ? 255 : (uint8_t)x, for x = num / den, den > 0. *)
Quant8(num, den) ==
    IF num < 0 THEN 0 ELSE IF num > 255 * den THEN 255 ELSE num \div den

----------------------------------------------------------------------------
(* rgb_to_yuv[][8] and yuv_to_rgb[][4], one row per matrix standard
   (Rec. 601, Rec. 709, SMPTE 240M, FCC), in steps of 1/CoefUnit. *)
rgb_to_yuv ==
    << <<29900, 58700, 11400, -14714, -28886, -51499, -10001>>,
       <<21260, 71520,  7220,  -9991, -33609, -55861,  -5639>>,
       <<21200, 70100,  8700, -10124, -33476, -54710,  -6790>>,
       <<30000, 59000, 11000, -14697, -28903, -51836,  -9664>> >>

yuv_to_rgb ==
    << <<113984, -39465, -58060, 203211>>,
       <<128033, -21482, -38059, 212798>>,
       <<128130, -25989, -38750, 209404>>,
       <<113821, -38058, -57875, 204128>> >>

----------------------------------------------------------------------------
(* Results of an edge function. *)
Ok(col) == [c |-> col, fail |-> ""]

Fail(col, msg) == [c |-> col, fail |-> msg]

(* The payload becomes the unevaluated application of `name` (with the
   flag parameter it read) to the payload so far. *)
Opaque(col, to, name, param) ==
    [col EXCEPT !.type = to, !.sym = Append(@, <<name, param>>)]

(* An edge the model does not evaluate: assert(c->type == from); ...;
   c->type = to. *)
OpaqueEdge(col, from, to, name) ==
    IF col.type # from
    THEN Fail(col, "c->type")
    ELSE Ok(Opaque(col, to, name, 0))

(* The numeric payload is available. *)
Numeric(col) == col.sym = <<>>

(* c->type = to, after a nested call (color_Luv_to_LCHuv, color_LCHuv_to_Luv). *)
Retag(r, to) == IF r.fail # "" THEN r ELSE Ok([r.c EXCEPT !.type = to])

(* The closing assert(c->extra == extra) of the two self-edges. *)
AssertExtra(r, extra) ==
    IF r.fail # "" THEN r
    ELSE IF ~(r.c.extra = extra) THEN Fail(r.c, "c->extra == extra")
    ELSE r

----------------------------------------------------------------------------
(* The edge functions of the 8-bit, cylindrical and video spaces. *)

(* R = c->RGB8.R * (1.0 / 255.0), ... *)
color_RGB8_to_RGB(col, extra) ==
    IF col.type # COLOR_RGB8 THEN Fail(col, "c->type == COLOR_RGB8")
    ELSE IF ~Numeric(col) THEN Ok(Opaque(col, COLOR_RGB, "color_RGB8_to_RGB", 0))
    ELSE Ok([col EXCEPT !.type = COLOR_RGB,
                        !.v = << RoundDiv(col.v[1] * Unit, 255),
                                 RoundDiv(col.v[2] * Unit, 255),
                                 RoundDiv(col.v[3] * Unit, 255) >>])

(* R = c->RGB.R * 255.0 + 0.5, clamped to 0..255 and truncated. *)
color_RGB_to_RGB8(col, extra) ==
    IF col.type # COLOR_RGB THEN Fail(col, "c->type == COLOR_RGB")
    ELSE IF ~Numeric(col) THEN Ok(Opaque(col, COLOR_RGB8, "color_RGB_to_RGB8", 0))
    ELSE Ok([col EXCEPT !.type = COLOR_RGB8,
                        !.v = << Quant8(2 * 255 * col.v[1] + Unit, 2 * Unit),
                                 Quant8(2 * 255 * col.v[2] + Unit, 2 * Unit),
                                 Quant8(2 * 255 * col.v[3] + Unit, 2 * Unit) >>])

(* color_RGB_to_HSL setting the tag for some payloads only. *)
color_RGB_to_HSL_ByPayload(col, extra) ==
    IF col.type # COLOR_RGB THEN Fail(col, "c->type == COLOR_RGB")
    ELSE IF Numeric(col) /\ col.v[1] # col.v[2] THEN Ok(col)
    ELSE Ok([col EXCEPT !.type = COLOR_HSL])

(* The hue of RGB->HSL and RGB->HSV, delta # 0:
   max == R ? (G - B) / delta : max == G ? (B - R) / delta + 2.0
                                         : (R - G) / delta + 4.0 *)
HueOf(R, G, B, max, delta) ==
    IF max = R THEN DivQ(G - B, delta)
    ELSE IF max = G THEN DivQ(B - R, delta) + 2 * Unit
    ELSE DivQ(R - G, delta) + 4 * Unit

color_RGB_to_HSL(col, extra) ==
    IF col.type # COLOR_RGB THEN Fail(col, "c->type == COLOR_RGB")
    ELSE IF ~Numeric(col) THEN Ok(Opaque(col, COLOR_HSL, "color_RGB_to_HSL", 0))
    ELSE
      LET R == col.v[1]
          G == col.v[2]
          B == col.v[3]
          min == Min2(Min2(R, G), B)
          max == Max2(Max2(R, G), B)
          delta == max - min
          L == RoundDiv(max + min, 2)
          den == IF max + min < Unit THEN max + min ELSE 2 * Unit - max - min
      IN  IF delta # 0
          THEN IF den = 0
               THEN Ok(Opaque(col, COLOR_HSL, "color_RGB_to_HSL", 0))
               ELSE Ok([col EXCEPT !.type = COLOR_HSL,
                          !.v = << HueOf(R, G, B, max, delta), DivQ(delta, den), L >>])
          ELSE Ok([col EXCEPT !.type = COLOR_HSL, !.v = <<0, 0, L>>])

(* color_RGB_to_HSV leaving H and S as the union held them when the value
   is gray. *)
color_RGB_to_HSV_StaleHue(col, extra) ==
    IF col.type # COLOR_RGB THEN Fail(col, "c->type == COLOR_RGB")
    ELSE IF ~Numeric(col) THEN Ok(Opaque(col, COLOR_HSV, "color_RGB_to_HSV", 0))
    ELSE IF Max2(Max2(col.v[1], col.v[2]), col.v[3])
              # Min2(Min2(col.v[1], col.v[2]), col.v[3])
    THEN Ok(Opaque(col, COLOR_HSV, "color_RGB_to_HSV", 0))
    ELSE Ok([col EXCEPT !.type = COLOR_HSV,
               !.v = << col.v[1], col.v[2], Max2(Max2(col.v[1], col.v[2]), col.v[3]) >>])

color_RGB_to_HSV(col, extra) ==
    IF col.type # COLOR_RGB THEN Fail(col, "c->type == COLOR_RGB")
    ELSE IF ~Numeric(col) THEN Ok(Opaque(col, COLOR_HSV, "color_RGB_to_HSV", 0))
    ELSE
      LET R == col.v[1]
          G == col.v[2]
          B == col.v[3]
          min == Min2(Min2(R, G), B)
          max == Max2(Max2(R, G), B)
          delta == max - min
      IN  IF delta # 0
          THEN IF max = 0
               THEN Ok(Opaque(col, COLOR_HSV, "color_RGB_to_HSV", 0))
               ELSE Ok([col EXCEPT !.type = COLOR_HSV,
                          !.v = << HueOf(R, G, B, max, delta), DivQ(delta, max), max >>])
          ELSE Ok([col EXCEPT !.type = COLOR_HSV, !.v = <<0, 0, max>>])

(* color_RGB_to_YUV without its closing c->extra = extra. *)
color_RGB_to_YUV_StaleFlags(col, extra) ==
    IF col.type # COLOR_RGB THEN Fail(col, "c->type == COLOR_RGB")
    ELSE IF ~Numeric(col)
    THEN Ok(Opaque(col, COLOR_YUV, "color_RGB_to_YUV", MatrixOf(extra)))
    ELSE Ok([col EXCEPT !.type = COLOR_YUV,
               !.v = << Dot3(col.v[1], rgb_to_yuv[MatrixOf(extra) + 1][1],
                             col.v[2], rgb_to_yuv[MatrixOf(extra) + 1][2],
                             col.v[3], rgb_to_yuv[MatrixOf(extra) + 1][3]),
                        Dot3(col.v[1], rgb_to_yuv[MatrixOf(extra) + 1][4],
                             col.v[2], rgb_to_yuv[MatrixOf(extra) + 1][5],
                             col.v[3], 43600),
                        Dot3(col.v[1], 61500,
                             col.v[2], rgb_to_yuv[MatrixOf(extra) + 1][6],
                             col.v[3], rgb_to_yuv[MatrixOf(extra) + 1][7]) >>])

(* mat = rgb_to_yuv[extra & COLOR_YUV_MAT_MASK]; c->extra = extra. *)
color_RGB_to_YUV(col, extra) ==
    IF col.type # COLOR_RGB THEN Fail(col, "c->type == COLOR_RGB")
    ELSE IF ~Numeric(col)
    THEN Ok([Opaque(col, COLOR_YUV, "color_RGB_to_YUV", MatrixOf(extra))
               EXCEPT !.extra = extra])
    ELSE
      LET R == col.v[1]
          G == col.v[2]
          B == col.v[3]
          mat == rgb_to_yuv[MatrixOf(extra) + 1]
      IN  Ok([col EXCEPT !.type = COLOR_YUV, !.extra = extra,
                !.v = << Dot3(R, mat[1], G, mat[2], B, mat[3]),
                         Dot3(R, mat[4], G, mat[5], B, 43600),
                         Dot3(R, 61500, G, mat[6], B, mat[7]) >>])

(* rgb_tbl of finish_HSL_to_RGB, indices into vars[] made 1-based. *)
rgb_tbl ==
    << <<1, 3, 2>>, <<3, 1, 2>>, <<2, 1, 3>>, <<2, 3, 1>>, <<3, 2, 1>>, <<1, 2, 3>> >>

(* The sector index of finish_HSL_to_RGB:
   idx = (int)(absh >= 6.0 ? floor(h * (1.0 / 6.0)) * -6.0 + h
                           : h < 0.0 ? h + 6.0 : h) *)
HueSector(h) ==
    LET x == IF Abs(h) >= 6 * Unit THEN h - 6 * Unit * (h \div (6 * Unit))
             ELSE IF h < 0 THEN h + 6 * Unit
             ELSE h
    IN  IF x >= 0 THEN x \div Unit ELSE -((-x) \div Unit)

(* h2 of finish_HSL_to_RGB: 1 - |h mod 2 - 1|. *)
HueWave(h) ==
    LET h2 == IF Abs(h) >= 2 * Unit THEN h - 2 * Unit * (h \div (2 * Unit)) - Unit
              ELSE IF h < 0 THEN h + Unit
              ELSE h - Unit
    IN  Unit - Abs(h2)

(* Writes c->RGB from hue h, chroma C and offset m; the tag was set to RGB
   by the caller. *)
finish_HSL_to_RGB(col, h, C, m) ==
    LET idx == HueSector(h)
        vs == << C + m, m, MulQ(C, HueWave(h)) + m >>
    IN  IF ~(idx >= 0 /\ idx <= 5)
        THEN Fail(col, "idx >= 0 && idx <= 5")
        ELSE Ok([col EXCEPT !.v = << vs[rgb_tbl[idx + 1][1]],
                                     vs[rgb_tbl[idx + 1][2]],
                                     vs[rgb_tbl[idx + 1][3]] >>])

color_HSL_to_RGB(col, extra) ==
    IF col.type # COLOR_HSL THEN Fail(col, "c->type == COLOR_HSL")
    ELSE IF ~Numeric(col) THEN Ok(Opaque(col, COLOR_RGB, "color_HSL_to_RGB", 0))
    ELSE
      LET H == col.v[1]
          S == col.v[2]
          L == col.v[3]
          C == MulQ(Unit - Abs(2 * L - Unit), S)
          m == L - RoundDiv(C, 2)
      IN  IF S # 0
          THEN finish_HSL_to_RGB([col EXCEPT !.type = COLOR_RGB], H, C, m)
          ELSE Ok([col EXCEPT !.type = COLOR_RGB, !.v = <<L, L, L>>])

color_HSV_to_RGB(col, extra) ==
    IF col.type # COLOR_HSV THEN Fail(col, "c->type == COLOR_HSV")
    ELSE IF ~Numeric(col) THEN Ok(Opaque(col, COLOR_RGB, "color_HSV_to_RGB", 0))
    ELSE
      LET H == col.v[1]
          S == col.v[2]
          V == col.v[3]
          C == MulQ(V, S)
          m == V - C
      IN  IF S # 0
          THEN finish_HSL_to_RGB([col EXCEPT !.type = COLOR_RGB], H, C, m)
          ELSE Ok([col EXCEPT !.type = COLOR_RGB, !.v = <<V, V, V>>])

(* color_YUV_to_RGB taking its matrix from the argument, not from c->extra. *)
color_YUV_to_RGB_TargetMatrix(col, extra) ==
    IF col.type # COLOR_YUV THEN Fail(col, "c->type == COLOR_YUV")
    ELSE IF ~Numeric(col)
    THEN Ok([Opaque(col, COLOR_RGB, "color_YUV_to_RGB", MatrixOf(extra))
               EXCEPT !.extra = 0])
    ELSE Ok([col EXCEPT !.type = COLOR_RGB, !.extra = 0,
               !.v = << Dot3(col.v[1], CoefUnit, col.v[3], yuv_to_rgb[MatrixOf(extra) + 1][1], 0, 0),
                        Dot3(col.v[1], CoefUnit, col.v[2], yuv_to_rgb[MatrixOf(extra) + 1][2],
                             col.v[3], yuv_to_rgb[MatrixOf(extra) + 1][3]),
                        Dot3(col.v[1], CoefUnit, col.v[2], yuv_to_rgb[MatrixOf(extra) + 1][4], 0, 0) >>])

(* mat = yuv_to_rgb[c->extra & COLOR_YUV_MAT_MASK]; c->extra = 0. *)
color_YUV_to_RGB(col, extra) ==
    IF col.type # COLOR_YUV THEN Fail(col, "c->type == COLOR_YUV")
    ELSE IF ~Numeric(col)
    THEN Ok([Opaque(col, COLOR_RGB, "color_YUV_to_RGB", MatrixOf(col.extra))
               EXCEPT !.extra = 0])
    ELSE
      LET Y == col.v[1]
          U == col.v[2]
          V == col.v[3]
          mat == yuv_to_rgb[MatrixOf(col.extra) + 1]
      IN  Ok([col EXCEPT !.type = COLOR_RGB, !.extra = 0,
                !.v = << Dot3(Y, CoefUnit, V, mat[1], 0, 0),
                         Dot3(Y, CoefUnit, U, mat[2], V, mat[3]),
                         Dot3(Y, CoefUnit, U, mat[4], 0, 0) >>])

(* color_RGB_to_YUV(c, extra) as the second call of color_YUV_to_YUV: it
   runs on what the first call left, unless an assertion stopped that one. *)
ThenRGB_to_YUV(r, extra) == IF r.fail # "" THEN r ELSE color_RGB_to_YUV(r.c, extra)

(* assert(c->extra != extra); color_YUV_to_RGB(c, extra);
   color_RGB_to_YUV(c, extra); assert(c->extra == extra). *)
color_YUV_to_YUV(col, extra) ==
    IF col.type # COLOR_YUV THEN Fail(col, "c->type == COLOR_YUV")
    ELSE IF ~(col.extra # extra) THEN Fail(col, "c->extra != extra")
    ELSE AssertExtra(ThenRGB_to_YUV(color_YUV_to_RGB(col, extra), extra),
                     extra)

(* MatchMatrix without its test: the self-edge is called every time. *)
MatchMatrix_Always(col, extra) == color_YUV_to_YUV(col, extra)

(* if((c->extra & COLOR_YUV_MAT_MASK) != (extra & COLOR_YUV_MAT_MASK))
       color_YUV_to_YUV(c, extra);
   as color_YUV_to_YCbCr and color_YCbCr_to_YUV both do on a YUV value. *)
MatchMatrix(col, extra) ==
    IF MatrixOf(col.extra) # MatrixOf(extra)
    THEN color_YUV_to_YUV(col, extra)
    ELSE Ok(col)

(* The second half of color_YUV_to_YCbCr: scale to codes by the range bit
   of extra, clamp, truncate, set the tag and c->extra = extra. *)
EncodeYCbCr(col, extra) ==
    IF ~Numeric(col)
    THEN Ok([Opaque(col, COLOR_YCBCR, "color_YUV_to_YCbCr", RangeBit(extra))
               EXCEPT !.extra = extra])
    ELSE IF RangeBit(extra) = 1
    THEN (* Y * 255.0 + 0.5, U * (31875.0/109.0) + 128, V * (8500.0/41.0) + 128 *)
         Ok([col EXCEPT !.type = COLOR_YCBCR, !.extra = extra,
               !.v = << Quant8(2 * 255 * col.v[1] + Unit, 2 * Unit),
                        Quant8(31875 * col.v[2] + 128 * 109 * Unit, 109 * Unit),
                        Quant8(8500 * col.v[3] + 128 * 41 * Unit, 41 * Unit) >>])
    ELSE (* Y * 219.0 + 16.5, U * (28000.0/109.0) + 144, V * (22400.0/123.0) + 144 *)
         Ok([col EXCEPT !.type = COLOR_YCBCR, !.extra = extra,
               !.v = << Quant8(2 * 219 * col.v[1] + 33 * Unit, 2 * Unit),
                        Quant8(28000 * col.v[2] + 144 * 109 * Unit, 109 * Unit),
                        Quant8(22400 * col.v[3] + 144 * 123 * Unit, 123 * Unit) >>])

(* The rest of color_YUV_to_YCbCr after the nested color_YUV_to_YUV. *)
ThenEncodeYCbCr(r, extra) == IF r.fail # "" THEN r ELSE EncodeYCbCr(r.c, extra)

color_YUV_to_YCbCr(col, extra) ==
    IF col.type # COLOR_YUV THEN Fail(col, "c->type == COLOR_YUV")
    ELSE ThenEncodeYCbCr(MatchMatrix(col, extra), extra)

(* DecodeYCbCr unscaling as full range whatever the range bit says. *)
DecodeYCbCr_FullRange(col) ==
    [ (IF ~Numeric(col)
       THEN Opaque(col, COLOR_YUV, "color_YCbCr_to_YUV", 1)
       ELSE [col EXCEPT !.type = COLOR_YUV,
               !.v = << RoundDiv(col.v[1] * Unit, 255),
                        RoundDiv((2 * 109 * col.v[2] - 27795) * Unit, 63750),
                        RoundDiv((2 * 41 * col.v[3] - 10455) * Unit, 17000) >>])
      EXCEPT !.extra = ClearRange(col.extra) ]

(* The first half of color_YCbCr_to_YUV: unscale the codes by the range
   bit of c->extra, set the tag and clear the range bit of c->extra. *)
DecodeYCbCr(col) ==
      LET Y == col.v[1]
          U == col.v[2]
          V == col.v[3]
      IN  [ (IF ~Numeric(col)
            THEN Opaque(col, COLOR_YUV, "color_YCbCr_to_YUV", RangeBit(col.extra))
            ELSE IF RangeBit(col.extra) = 1
            THEN (* Y * (1/255), U * (109/31875) - 0.436, V * (41/8500) - 0.615;
                    0.436 = 27795/63750 and 0.615 = 10455/17000 *)
                 [col EXCEPT !.type = COLOR_YUV,
                    !.v = << RoundDiv(Y * Unit, 255),
                             RoundDiv((2 * 109 * U - 27795) * Unit, 63750),
                             RoundDiv((2 * 41 * V - 10455) * Unit, 17000) >>]
            ELSE (* Y * (1/219) - 16/219, U * (109/28000) - 0.558625,
                    V * (123/22400) - 0.78796875;
                    0.558625 = 31283/56000 and 0.78796875 = 35301/44800 *)
                 [col EXCEPT !.type = COLOR_YUV,
                    !.v = << RoundDiv((Y - 16) * Unit, 219),
                             RoundDiv((2 * 109 * U - 31283) * Unit, 56000),
                             RoundDiv((2 * 123 * V - 35301) * Unit, 44800) >>])
            EXCEPT !.extra = ClearRange(col.extra) ]

color_YCbCr_to_YUV(col, extra) ==
    IF col.type # COLOR_YCBCR THEN Fail(col, "c->type == COLOR_YCBCR")
    ELSE MatchMatrix(DecodeYCbCr(col), extra)

(* color_YUV_to_YCbCr(c, extra) as the second call of color_YCbCr_to_YCbCr. *)
ThenYUV_to_YCbCr(r, extra) == IF r.fail # "" THEN r ELSE color_YUV_to_YCbCr(r.c, extra)

(* assert(c->extra != extra); color_YCbCr_to_YUV(c, extra);
   color_YUV_to_YCbCr(c, extra); assert(c->extra == extra). *)
color_YCbCr_to_YCbCr(col, extra) ==
    IF col.type # COLOR_YCBCR THEN Fail(col, "c->type == COLOR_YCBCR")
    ELSE IF ~(col.extra # extra) THEN Fail(col, "c->extra != extra")
    ELSE AssertExtra(ThenYUV_to_YCbCr(color_YCbCr_to_YUV(col, extra), extra),
                     extra)

----------------------------------------------------------------------------
(* The edge functions whose arithmetic the model does not evaluate: each
   asserts its source tag, rewrites the payload and sets its target tag;
   none of them reads or writes c->extra. *)

color_RGB8_to_LinearRGB(col, extra) ==
    OpaqueEdge(col, COLOR_RGB8, COLOR_LINEAR_RGB, "color_RGB8_to_LinearRGB")

color_RGB_to_LinearRGB(col, extra) ==
    OpaqueEdge(col, COLOR_RGB, COLOR_LINEAR_RGB, "color_RGB_to_LinearRGB")

color_RGB_to_YDbDr(col, extra) ==
    OpaqueEdge(col, COLOR_RGB, COLOR_YDBDR, "color_RGB_to_YDbDr")

color_RGB_to_YIQ(col, extra) ==
    OpaqueEdge(col, COLOR_RGB, COLOR_YIQ, "color_RGB_to_YIQ")

color_LinearRGB_to_RGB8(col, extra) ==
    OpaqueEdge(col, COLOR_LINEAR_RGB, COLOR_RGB8, "color_LinearRGB_to_RGB8")

color_LinearRGB_to_RGB(col, extra) ==
    OpaqueEdge(col, COLOR_LINEAR_RGB, COLOR_RGB, "color_LinearRGB_to_RGB")

color_LinearRGB_to_XYZ(col, extra) ==
    OpaqueEdge(col, COLOR_LINEAR_RGB, COLOR_XYZ, "color_LinearRGB_to_XYZ")

color_LinearRGB_to_Lab(col, extra) ==
    OpaqueEdge(col, COLOR_LINEAR_RGB, COLOR_LAB, "color_LinearRGB_to_Lab")

color_YDbDr_to_RGB(col, extra) ==
    OpaqueEdge(col, COLOR_YDBDR, COLOR_RGB, "color_YDbDr_to_RGB")

color_YDbDr_to_YIQ(col, extra) ==
    OpaqueEdge(col, COLOR_YDBDR, COLOR_YIQ, "color_YDbDr_to_YIQ")

color_YIQ_to_RGB(col, extra) ==
    OpaqueEdge(col, COLOR_YIQ, COLOR_RGB, "color_YIQ_to_RGB")

color_YIQ_to_YDbDr(col, extra) ==
    OpaqueEdge(col, COLOR_YIQ, COLOR_YDBDR, "color_YIQ_to_YDbDr")

color_XYZ_to_LinearRGB(col, extra) ==
    OpaqueEdge(col, COLOR_XYZ, COLOR_LINEAR_RGB, "color_XYZ_to_LinearRGB")

color_XYZ_to_xyY(col, extra) ==
    OpaqueEdge(col, COLOR_XYZ, COLOR_XYY, "color_XYZ_to_xyY")

color_XYZ_to_Lab(col, extra) ==
    OpaqueEdge(col, COLOR_XYZ, COLOR_LAB, "color_XYZ_to_Lab")

color_XYZ_to_Luv(col, extra) ==
    OpaqueEdge(col, COLOR_XYZ, COLOR_LUV, "color_XYZ_to_Luv")

color_xyY_to_XYZ(col, extra) ==
    OpaqueEdge(col, COLOR_XYY, COLOR_XYZ, "color_xyY_to_XYZ")

color_Lab_to_LinearRGB(col, extra) ==
    OpaqueEdge(col, COLOR_LAB, COLOR_LINEAR_RGB, "color_Lab_to_LinearRGB")

color_Lab_to_XYZ(col, extra) ==
    OpaqueEdge(col, COLOR_LAB, COLOR_XYZ, "color_Lab_to_XYZ")

color_Lab_to_LCHab(col, extra) ==
    OpaqueEdge(col, COLOR_LAB, COLOR_LCHAB, "color_Lab_to_LCHab")

color_LCHab_to_Lab(col, extra) ==
    OpaqueEdge(col, COLOR_LCHAB, COLOR_LAB, "color_LCHab_to_Lab")

color_Luv_to_XYZ(col, extra) ==
    OpaqueEdge(col, COLOR_LUV, COLOR_XYZ, "color_Luv_to_XYZ")

(* color_Luv_to_LCHuv without its last line: the tag stays as the
   borrowed color_Lab_to_LCHab left it. *)
color_Luv_to_LCHuv_NoRetag(col, extra) ==
    IF col.type # COLOR_LUV THEN Fail(col, "c->type == COLOR_LUV")
    ELSE color_Lab_to_LCHab([col EXCEPT !.type = COLOR_LAB], extra)

(* c->type = COLOR_LAB; color_Lab_to_LCHab(c, extra); c->type = COLOR_LCHUV. *)
color_Luv_to_LCHuv(col, extra) ==
    IF col.type # COLOR_LUV THEN Fail(col, "c->type == COLOR_LUV")
    ELSE Retag(color_Lab_to_LCHab([col EXCEPT !.type = COLOR_LAB], extra), COLOR_LCHUV)

(* c->type = COLOR_LCHAB; color_LCHab_to_Lab(c, extra); c->type = COLOR_LUV. *)
color_LCHuv_to_Luv(col, extra) ==
    IF col.type # COLOR_LCHUV THEN Fail(col, "c->type == COLOR_LCHUV")
    ELSE Retag(color_LCHab_to_Lab([col EXCEPT !.type = COLOR_LCHAB], extra), COLOR_LUV)

color_LCHuv_to_LSHuv(col, extra) ==
    OpaqueEdge(col, COLOR_LCHUV, COLOR_LSHUV, "color_LCHuv_to_LSHuv")

color_LSHuv_to_LCHuv(col, extra) ==
    OpaqueEdge(col, COLOR_LSHUV, COLOR_LCHUV, "color_LSHuv_to_LCHuv")

----------------------------------------------------------------------------
(* g_descriptors: conversions[S][D] is the name of the function stored in
   g_descriptors[S - 1].conversions[D - 1], "NULL" for a null pointer (the
   entries an initializer leaves out are null). *)
conversions ==
    << << "NULL", "color_RGB8_to_RGB", "color_RGB8_to_LinearRGB", "NULL",
          "NULL", "NULL", "NULL", "NULL",
          "NULL", "NULL", "NULL", "NULL",
          "NULL", "NULL", "NULL", "NULL" >>,
       << "color_RGB_to_RGB8", "NULL", "color_RGB_to_LinearRGB", "color_RGB_to_HSL",
          "color_RGB_to_HSV", "color_RGB_to_YUV", "NULL", "color_RGB_to_YDbDr",
          "color_RGB_to_YIQ", "NULL", "NULL", "NULL",
          "NULL", "NULL", "NULL", "NULL" >>,
       << "color_LinearRGB_to_RGB8", "color_LinearRGB_to_RGB", "NULL", "NULL",
          "NULL", "NULL", "NULL", "NULL",
          "NULL", "color_LinearRGB_to_XYZ", "NULL", "color_LinearRGB_to_Lab",
          "NULL", "NULL", "NULL", "NULL" >>,
       << "NULL", "color_HSL_to_RGB", "NULL", "NULL",
          "NULL", "NULL", "NULL", "NULL",
          "NULL", "NULL", "NULL", "NULL",
          "NULL", "NULL", "NULL", "NULL" >>,
       << "NULL", "color_HSV_to_RGB", "NULL", "NULL",
          "NULL", "NULL", "NULL", "NULL",
          "NULL", "NULL", "NULL", "NULL",
          "NULL", "NULL", "NULL", "NULL" >>,
       << "NULL", "color_YUV_to_RGB", "NULL", "NULL",
          "NULL", "color_YUV_to_YUV", "color_YUV_to_YCbCr", "NULL",
          "NULL", "NULL", "NULL", "NULL",
          "NULL", "NULL", "NULL", "NULL" >>,
       << "NULL", "NULL", "NULL", "NULL",
          "NULL", "color_YCbCr_to_YUV", "color_YCbCr_to_YCbCr", "NULL",
          "NULL", "NULL", "NULL", "NULL",
          "NULL", "NULL", "NULL", "NULL" >>,
       << "NULL", "color_YDbDr_to_RGB", "NULL", "NULL",
          "NULL", "NULL", "NULL", "NULL",
          "color_YDbDr_to_YIQ", "NULL", "NULL", "NULL",
          "NULL", "NULL", "NULL", "NULL" >>,
       << "NULL", "color_YIQ_to_RGB", "NULL", "NULL",
          "NULL", "NULL", "NULL", "color_YIQ_to_YDbDr",
          "NULL", "NULL", "NULL", "NULL",
          "NULL", "NULL", "NULL", "NULL" >>,
       << "NULL", "NULL", "color_XYZ_to_LinearRGB", "NULL",
          "NULL", "NULL", "NULL", "NULL",
          "NULL", "NULL", "color_XYZ_to_xyY", "color_XYZ_to_Lab",
          "color_XYZ_to_Luv", "NULL", "NULL", "NULL" >>,
       << "NULL", "NULL", "NULL", "NULL",
          "NULL", "NULL", "NULL", "NULL",
          "NULL", "color_xyY_to_XYZ", "NULL", "NULL",
          "NULL", "NULL", "NULL", "NULL" >>,
       << "NULL", "NULL", "color_Lab_to_LinearRGB", "NULL",
          "NULL", "NULL", "NULL", "NULL",
          "NULL", "color_Lab_to_XYZ", "NULL", "NULL",
          "NULL", "color_Lab_to_LCHab", "NULL", "NULL" >>,
       << "NULL", "NULL", "NULL", "NULL",
          "NULL", "NULL", "NULL", "NULL",
          "NULL", "color_Luv_to_XYZ", "NULL", "NULL",
          "NULL", "NULL", "color_Luv_to_LCHuv", "NULL" >>,
       << "NULL", "NULL", "NULL", "NULL",
          "NULL", "NULL", "NULL", "NULL",
          "NULL", "NULL", "NULL", "color_LCHab_to_Lab",
          "NULL", "NULL", "NULL", "NULL" >>,
       << "NULL", "NULL", "NULL", "NULL",
          "NULL", "NULL", "NULL", "NULL",
          "NULL", "NULL", "NULL", "NULL",
          "color_LCHuv_to_Luv", "NULL", "NULL", "color_LCHuv_to_LSHuv" >>,
       << "NULL", "NULL", "NULL", "NULL",
          "NULL", "NULL", "NULL", "NULL",
          "NULL", "NULL", "NULL", "NULL",
          "NULL", "NULL", "color_LSHuv_to_LCHuv", "NULL" >> >>

(* g_descriptors[S - 1].proxy_conversions[D - 1]. *)
proxy_conversions ==
    << << COLOR_NONE, COLOR_NONE, COLOR_NONE, COLOR_RGB,
          COLOR_RGB, COLOR_RGB, COLOR_RGB, COLOR_RGB,
          COLOR_RGB, COLOR_LINEAR_RGB, COLOR_LINEAR_RGB, COLOR_LINEAR_RGB,
          COLOR_LINEAR_RGB, COLOR_LINEAR_RGB, COLOR_LINEAR_RGB, COLOR_LINEAR_RGB >>,
       << COLOR_NONE, COLOR_NONE, COLOR_NONE, COLOR_NONE,
          COLOR_NONE, COLOR_NONE, COLOR_YUV, COLOR_NONE,
          COLOR_NONE, COLOR_LINEAR_RGB, COLOR_LINEAR_RGB, COLOR_LINEAR_RGB,
          COLOR_LINEAR_RGB, COLOR_LINEAR_RGB, COLOR_LINEAR_RGB, COLOR_LINEAR_RGB >>,
       << COLOR_NONE, COLOR_NONE, COLOR_NONE, COLOR_RGB,
          COLOR_RGB, COLOR_RGB, COLOR_RGB, COLOR_RGB,
          COLOR_RGB, COLOR_NONE, COLOR_XYZ, COLOR_NONE,
          COLOR_XYZ, COLOR_LAB, COLOR_XYZ, COLOR_XYZ >>,
       << COLOR_RGB, COLOR_NONE, COLOR_RGB, COLOR_NONE,
          COLOR_RGB, COLOR_RGB, COLOR_RGB, COLOR_RGB,
          COLOR_RGB, COLOR_RGB, COLOR_RGB, COLOR_RGB,
          COLOR_RGB, COLOR_RGB, COLOR_RGB, COLOR_RGB >>,
       << COLOR_RGB, COLOR_NONE, COLOR_RGB, COLOR_RGB,
          COLOR_NONE, COLOR_RGB, COLOR_RGB, COLOR_RGB,
          COLOR_RGB, COLOR_RGB, COLOR_RGB, COLOR_RGB,
          COLOR_RGB, COLOR_RGB, COLOR_RGB, COLOR_RGB >>,
       << COLOR_RGB, COLOR_NONE, COLOR_RGB, COLOR_RGB,
          COLOR_RGB, COLOR_NONE, COLOR_NONE, COLOR_RGB,
          COLOR_RGB, COLOR_RGB, COLOR_RGB, COLOR_RGB,
          COLOR_RGB, COLOR_RGB, COLOR_RGB, COLOR_RGB >>,
       << COLOR_YUV, COLOR_YUV, COLOR_YUV, COLOR_YUV,
          COLOR_YUV, COLOR_NONE, COLOR_NONE, COLOR_YUV,
          COLOR_YUV, COLOR_YUV, COLOR_YUV, COLOR_YUV,
          COLOR_YUV, COLOR_YUV, COLOR_YUV, COLOR_YUV >>,
       << COLOR_RGB, COLOR_NONE, COLOR_RGB, COLOR_RGB,
          COLOR_RGB, COLOR_RGB, COLOR_RGB, COLOR_NONE,
          COLOR_NONE, COLOR_RGB, COLOR_RGB, COLOR_RGB,
          COLOR_RGB, COLOR_RGB, COLOR_RGB, COLOR_RGB >>,
       << COLOR_RGB, COLOR_NONE, COLOR_RGB, COLOR_RGB,
          COLOR_RGB, COLOR_RGB, COLOR_RGB, COLOR_NONE,
          COLOR_NONE, COLOR_RGB, COLOR_RGB, COLOR_RGB,
          COLOR_RGB, COLOR_RGB, COLOR_RGB, COLOR_RGB >>,
       << COLOR_LINEAR_RGB, COLOR_LINEAR_RGB, COLOR_NONE, COLOR_LINEAR_RGB,
          COLOR_LINEAR_RGB, COLOR_LINEAR_RGB, COLOR_LINEAR_RGB, COLOR_LINEAR_RGB,
          COLOR_LINEAR_RGB, COLOR_NONE, COLOR_NONE, COLOR_NONE,
          COLOR_NONE, COLOR_LAB, COLOR_LUV, COLOR_LUV >>,
       << COLOR_XYZ, COLOR_XYZ, COLOR_XYZ, COLOR_XYZ,
          COLOR_XYZ, COLOR_XYZ, COLOR_XYZ, COLOR_XYZ,
          COLOR_XYZ, COLOR_NONE, COLOR_NONE, COLOR_XYZ,
          COLOR_XYZ, COLOR_XYZ, COLOR_XYZ, COLOR_XYZ >>,
       << COLOR_LINEAR_RGB, COLOR_LINEAR_RGB, COLOR_NONE, COLOR_LINEAR_RGB,
          COLOR_LINEAR_RGB, COLOR_LINEAR_RGB, COLOR_LINEAR_RGB, COLOR_LINEAR_RGB,
          COLOR_LINEAR_RGB, COLOR_NONE, COLOR_XYZ, COLOR_NONE,
          COLOR_XYZ, COLOR_NONE, COLOR_XYZ, COLOR_XYZ >>,
       << COLOR_XYZ, COLOR_XYZ, COLOR_XYZ, COLOR_XYZ,
          COLOR_XYZ, COLOR_XYZ, COLOR_XYZ, COLOR_XYZ,
          COLOR_XYZ, COLOR_NONE, COLOR_XYZ, COLOR_XYZ,
          COLOR_NONE, COLOR_XYZ, COLOR_NONE, COLOR_LCHUV >>,
       << COLOR_LAB, COLOR_LAB, COLOR_LAB, COLOR_LAB,
          COLOR_LAB, COLOR_LAB, COLOR_LAB, COLOR_LAB,
          COLOR_LAB, COLOR_LAB, COLOR_LAB, COLOR_NONE,
          COLOR_LAB, COLOR_NONE, COLOR_LAB, COLOR_LAB >>,
       << COLOR_LUV, COLOR_LUV, COLOR_LUV, COLOR_LUV,
          COLOR_LUV, COLOR_LUV, COLOR_LUV, COLOR_LUV,
          COLOR_LUV, COLOR_LUV, COLOR_LUV, COLOR_LUV,
          COLOR_NONE, COLOR_LUV, COLOR_NONE, COLOR_NONE >>,
       << COLOR_LCHUV, COLOR_LCHUV, COLOR_LCHUV, COLOR_LCHUV,
          COLOR_LCHUV, COLOR_LCHUV, COLOR_LCHUV, COLOR_LCHUV,
          COLOR_LCHUV, COLOR_LCHUV, COLOR_LCHUV, COLOR_LCHUV,
          COLOR_LCHUV, COLOR_LCHUV, COLOR_NONE, COLOR_NONE >> >>

(* g_descriptors[S - 1].extract. *)
extract ==
    << "color_RGB8_extract",
       "color_RGB_extract",
       "color_LinearRGB_extract",
       "color_HSL_extract",
       "color_HSV_extract",
       "color_YUV_extract",
       "color_YCbCr_extract",
       "color_YDbDr_extract",
       "color_YIQ_extract",
       "color_XYZ_extract",
       "color_xyY_extract",
       "color_Lab_extract",
       "color_Luv_extract",
       "color_LCHab_extract",
       "color_LCHuv_extract",
       "color_LSHuv_extract" >>

(* ProxyAt with one next hop that gets no nearer: RGB8 goes to HSL by
   way of LinearRGB. *)
ProxyAt_Sideways(S, D) ==
    IF S \in Spaces /\ D \in Spaces
    THEN IF S = COLOR_RGB8 /\ D = COLOR_HSL
         THEN COLOR_LINEAR_RGB
         ELSE proxy_conversions[S][D]
    ELSE COLOR_NONE

(* ProxyAt with one entry left at COLOR_NONE: no next hop from xyY to RGB8. *)
ProxyAt_Gap(S, D) ==
    IF S \in Spaces /\ D \in Spaces
    THEN IF S = COLOR_XYY /\ D = COLOR_RGB8
         THEN COLOR_NONE
         ELSE proxy_conversions[S][D]
    ELSE COLOR_NONE

(* ProxyAt with one wrong next hop: XYZ routes to the RGB family through Lab. *)
ProxyAt_Detour(S, D) ==
    IF S \in Spaces /\ D \in Spaces
    THEN IF S = COLOR_XYZ /\ proxy_conversions[S][D] = COLOR_LINEAR_RGB
         THEN COLOR_LAB
         ELSE proxy_conversions[S][D]
    ELSE COLOR_NONE

(* desc->conversions[D - 1] and desc->proxy_conversions[D - 1] of
   desc = &g_descriptors[S - 1], and g_descriptors[S - 1].extract.  The
   asserts of the callers keep S and D inside the tables; a read outside
   them yields no function of the library ("WILD") and no space. *)
FuncAt(S, D) ==
    IF S \in Spaces /\ D \in Spaces THEN conversions[S][D] ELSE "WILD"

ProxyAt(S, D) ==
    IF S \in Spaces /\ D \in Spaces THEN proxy_conversions[S][D] ELSE COLOR_NONE

ExtractAt(S) == IF S \in Spaces THEN extract[S] ELSE "WILD"

(* The call func(c, new_extra) through a conversion_func pointer. *)
Invoke(func, col, extra) ==
    CASE func = "color_RGB8_to_RGB" -> color_RGB8_to_RGB(col, extra)
      [] func = "color_RGB8_to_LinearRGB" -> color_RGB8_to_LinearRGB(col, extra)
      [] func = "color_RGB_to_RGB8" -> color_RGB_to_RGB8(col, extra)
      [] func = "color_RGB_to_LinearRGB" -> color_RGB_to_LinearRGB(col, extra)
      [] func = "color_RGB_to_HSL" -> color_RGB_to_HSL(col, extra)
      [] func = "color_RGB_to_HSV" -> color_RGB_to_HSV(col, extra)
      [] func = "color_RGB_to_YUV" -> color_RGB_to_YUV(col, extra)
      [] func = "color_RGB_to_YDbDr" -> color_RGB_to_YDbDr(col, extra)
      [] func = "color_RGB_to_YIQ" -> color_RGB_to_YIQ(col, extra)
      [] func = "color_LinearRGB_to_RGB8" -> color_LinearRGB_to_RGB8(col, extra)
      [] func = "color_LinearRGB_to_RGB" -> color_LinearRGB_to_RGB(col, extra)
      [] func = "color_LinearRGB_to_XYZ" -> color_LinearRGB_to_XYZ(col, extra)
      [] func = "color_LinearRGB_to_Lab" -> color_LinearRGB_to_Lab(col, extra)
      [] func = "color_HSL_to_RGB" -> color_HSL_to_RGB(col, extra)
      [] func = "color_HSV_to_RGB" -> color_HSV_to_RGB(col, extra)
      [] func = "color_YUV_to_RGB" -> color_YUV_to_RGB(col, extra)
      [] func = "color_YUV_to_YUV" -> color_YUV_to_YUV(col, extra)
      [] func = "color_YUV_to_YCbCr" -> color_YUV_to_YCbCr(col, extra)
      [] func = "color_YCbCr_to_YUV" -> color_YCbCr_to_YUV(col, extra)
      [] func = "color_YCbCr_to_YCbCr" -> color_YCbCr_to_YCbCr(col, extra)
      [] func = "color_YDbDr_to_RGB" -> color_YDbDr_to_RGB(col, extra)
      [] func = "color_YDbDr_to_YIQ" -> color_YDbDr_to_YIQ(col, extra)
      [] func = "color_YIQ_to_RGB" -> color_YIQ_to_RGB(col, extra)
      [] func = "color_YIQ_to_YDbDr" -> color_YIQ_to_YDbDr(col, extra)
      [] func = "color_XYZ_to_LinearRGB" -> color_XYZ_to_LinearRGB(col, extra)
      [] func = "color_XYZ_to_xyY" -> color_XYZ_to_xyY(col, extra)
      [] func = "color_XYZ_to_Lab" -> color_XYZ_to_Lab(col, extra)
      [] func = "color_XYZ_to_Luv" -> color_XYZ_to_Luv(col, extra)
      [] func = "color_xyY_to_XYZ" -> color_xyY_to_XYZ(col, extra)
      [] func = "color_Lab_to_LinearRGB" -> color_Lab_to_LinearRGB(col, extra)
      [] func = "color_Lab_to_XYZ" -> color_Lab_to_XYZ(col, extra)
      [] func = "color_Lab_to_LCHab" -> color_Lab_to_LCHab(col, extra)
      [] func = "color_LCHab_to_Lab" -> color_LCHab_to_Lab(col, extra)
      [] func = "color_Luv_to_XYZ" -> color_Luv_to_XYZ(col, extra)
      [] func = "color_Luv_to_LCHuv" -> color_Luv_to_LCHuv(col, extra)
      [] func = "color_LCHuv_to_Luv" -> color_LCHuv_to_Luv(col, extra)
      [] func = "color_LCHuv_to_LSHuv" -> color_LCHuv_to_LSHuv(col, extra)
      [] func = "color_LSHuv_to_LCHuv" -> color_LSHuv_to_LCHuv(col, extra)
      [] OTHER -> Fail(col, "call through a pointer that is no conversion function")

(* The tag each accessor asserts: assert(src->type == COLOR_X). *)
AccessorTag(name) ==
    CASE name = "color_RGB8_extract" -> COLOR_RGB8
      [] name = "color_RGB_extract" -> COLOR_RGB
      [] name = "color_LinearRGB_extract" -> COLOR_LINEAR_RGB
      [] name = "color_HSL_extract" -> COLOR_HSL
      [] name = "color_HSV_extract" -> COLOR_HSV
      [] name = "color_YUV_extract" -> COLOR_YUV
      [] name = "color_YCbCr_extract" -> COLOR_YCBCR
      [] name = "color_YDbDr_extract" -> COLOR_YDBDR
      [] name = "color_YIQ_extract" -> COLOR_YIQ
      [] name = "color_XYZ_extract" -> COLOR_XYZ
      [] name = "color_xyY_extract" -> COLOR_XYY
      [] name = "color_Lab_extract" -> COLOR_LAB
      [] name = "color_LCHab_extract" -> COLOR_LCHAB
      [] name = "color_Luv_extract" -> COLOR_LUV
      [] name = "color_LCHuv_extract" -> COLOR_LCHUV
      [] name = "color_LSHuv_extract" -> COLOR_LSHUV
      [] OTHER -> COLOR_NONE

----------------------------------------------------------------------------
(* color_convert *)

(* LoopCond with the flags left out of the test. *)
LoopCond_TypeOnly(col, nt, ne) == col.type # nt

(* LoopCond with the comparison of the flags inverted. *)
LoopCond_Inverted(col, nt, ne) == col.type # nt \/ col.extra = ne

(* while(c->type != new_type || c->extra != new_extra) *)
LoopCond(col, nt, ne) == col.type # nt \/ col.extra # ne

(* func(c, new_extra); assert(c->type == tmp_type): r is what the call
   returned. *)
AfterCall(r, func, tmp_type) ==
    IF r.fail # ""
    THEN [c |-> r.c, fail |-> r.fail, func |-> func]
    ELSE IF ~(r.c.type = tmp_type)
    THEN [c |-> r.c, fail |-> "c->type == tmp_type", func |-> func]
    ELSE [c |-> r.c, fail |-> "", func |-> func]

(* The if(!func) branch: the next hop from the proxy table. *)
ViaProxy(col, ne, tmp_type) ==
    IF ~(tmp_type > COLOR_NONE)
    THEN [c |-> col, fail |-> "tmp_type > COLOR_NONE", func |-> ""]
    ELSE IF ~(tmp_type < COLOR_DUMMY_END)
    THEN [c |-> col, fail |-> "tmp_type < COLOR_DUMMY_END", func |-> ""]
    ELSE IF ~(FuncAt(col.type, tmp_type) # "NULL")
    THEN [c |-> col, fail |-> "func != NULL", func |-> ""]
    ELSE AfterCall(Invoke(FuncAt(col.type, tmp_type), col, ne),
                   FuncAt(col.type, tmp_type), tmp_type)

(* One iteration of the loop body.  Returns the struct, the failed
   assertion ("" when none) and the edge function it called ("" when an
   assertion stopped the iteration before the call). *)
LoopBody(col, nt, ne) ==
    IF ~(col.type > COLOR_NONE)
    THEN [c |-> col, fail |-> "c->type > COLOR_NONE", func |-> ""]
    ELSE IF ~(col.type < COLOR_DUMMY_END)
    THEN [c |-> col, fail |-> "c->type < COLOR_DUMMY_END", func |-> ""]
    ELSE IF FuncAt(col.type, nt) # "NULL"
    THEN AfterCall(Invoke(FuncAt(col.type, nt), col, ne), FuncAt(col.type, nt), nt)
    ELSE ViaProxy(col, ne, ProxyAt(col.type, nt))

(* The identifiers of the calls in progress. *)
Calls == DOMAIN pc

(* Enter without the two assertions on new_type. *)
Enter_NoCheck(t) ==
    /\ pc[t] = "idle"
    /\ pc' = [pc EXCEPT ![t] = "loop"]
    /\ UNCHANGED <<c, new_type, new_extra, hops, trace, failed, dst, src, orig, fin>>

(* Entry: assert(new_type > COLOR_NONE); assert(new_type < COLOR_DUMMY_END). *)
Enter(t) ==
    /\ pc[t] = "idle"
    /\ IF ~(new_type[t] > COLOR_NONE)
       THEN /\ pc' = [pc EXCEPT ![t] = "aborted"]
            /\ failed' = [failed EXCEPT ![t] = "new_type > COLOR_NONE"]
       ELSE IF ~(new_type[t] < COLOR_DUMMY_END)
       THEN /\ pc' = [pc EXCEPT ![t] = "aborted"]
            /\ failed' = [failed EXCEPT ![t] = "new_type < COLOR_DUMMY_END"]
       ELSE /\ pc' = [pc EXCEPT ![t] = "loop"]
            /\ failed' = failed
    /\ UNCHANGED <<c, new_type, new_extra, hops, trace, dst, src, orig, fin>>

(* Iterate keeping the struct it works on in one place shared by all calls. *)
Iterate_Shared(t) ==
    /\ pc[t] = "loop"
    /\ LoopCond(c[t], new_type[t], new_extra[t])
    /\ \E r \in {LoopBody(c[t], new_type[t], new_extra[t])} :
           /\ c' = [u \in DOMAIN c |-> r.c]
           /\ failed' = [failed EXCEPT ![t] = r.fail]
           /\ pc' = [pc EXCEPT ![t] = IF r.fail = "" THEN "loop" ELSE "aborted"]
           /\ hops' = [hops EXCEPT ![t] = IF r.func = "" THEN @ ELSE @ + 1]
           /\ trace' = [trace EXCEPT ![t] =
                          IF r.func = "" THEN @
                          ELSE Append(@, <<r.func, r.c.type, r.c.extra>>)]
    /\ UNCHANGED <<new_type, new_extra, dst, src, orig, fin>>

(* One pass through the loop body. *)
Iterate(t) ==
    /\ pc[t] = "loop"
    /\ LoopCond(c[t], new_type[t], new_extra[t])
    /\ \E r \in {LoopBody(c[t], new_type[t], new_extra[t])} :
           /\ c' = [c EXCEPT ![t] = r.c]
           /\ failed' = [failed EXCEPT ![t] = r.fail]
           /\ pc' = [pc EXCEPT ![t] = IF r.fail = "" THEN "loop" ELSE "aborted"]
           /\ hops' = [hops EXCEPT ![t] = IF r.func = "" THEN @ ELSE @ + 1]
           /\ trace' = [trace EXCEPT ![t] =
                          IF r.func = "" THEN @
                          ELSE Append(@, <<r.func, r.c.type, r.c.extra>>)]
    /\ UNCHANGED <<new_type, new_extra, dst, src, orig, fin>>

(* Loop exit: assert(c->type > COLOR_NONE); assert(c->type < COLOR_DUMMY_END). *)
Return(t) ==
    /\ pc[t] = "loop"
    /\ ~LoopCond(c[t], new_type[t], new_extra[t])
    /\ IF ~(c[t].type > COLOR_NONE)
       THEN /\ pc' = [pc EXCEPT ![t] = "aborted"]
            /\ failed' = [failed EXCEPT ![t] = "c->type > COLOR_NONE"]
       ELSE IF ~(c[t].type < COLOR_DUMMY_END)
       THEN /\ pc' = [pc EXCEPT ![t] = "aborted"]
            /\ failed' = [failed EXCEPT ![t] = "c->type < COLOR_DUMMY_END"]
       ELSE /\ pc' = [pc EXCEPT ![t] = "done"]
            /\ failed' = failed
    /\ UNCHANGED <<c, new_type, new_extra, hops, trace, dst, src, orig, fin>>

----------------------------------------------------------------------------
(* color_extract_components *)

(* What dst holds before anything is written to it. *)
NoDst == [set |-> FALSE, v |-> <<0, 0, 0>>, sym |-> <<>>, fail |-> ""]

(* dst[i] = src->X.f: a uint8_t field (RGB8, YCbCr) is converted to the
   double of the same value, a double field is copied. *)
AsDouble(tag, x) == IF tag \in {COLOR_RGB8, COLOR_YCBCR} THEN x * Unit ELSE x

(* Accessor with dst[1] and dst[2] exchanged. *)
Accessor_Swapped(name, col) ==
    IF ~(col.type = AccessorTag(name))
    THEN [NoDst EXCEPT !.fail = "src->type"]
    ELSE [set |-> TRUE,
          v |-> << AsDouble(col.type, col.v[1]), AsDouble(col.type, col.v[3]),
                   AsDouble(col.type, col.v[2]) >>,
          sym |-> col.sym, fail |-> ""]

(* An accessor color_X_extract: assert(src->type == COLOR_X), then
   dst[0], dst[1], dst[2] = the three fields of src->X in declaration order. *)
Accessor(name, col) ==
    IF ~(col.type = AccessorTag(name))
    THEN [NoDst EXCEPT !.fail = "src->type"]
    ELSE [set |-> TRUE,
          v |-> << AsDouble(AccessorTag(name), col.v[1]),
                   AsDouble(AccessorTag(name), col.v[2]),
                   AsDouble(AccessorTag(name), col.v[3]) >>,
          sym |-> col.sym, fail |-> ""]

(* assert(src->type > COLOR_NONE); assert(src->type < COLOR_DUMMY_END);
   g_descriptors[src->type - 1].extract(dst, src). *)
color_extract_components(col) ==
    IF ~(col.type > COLOR_NONE)
    THEN [NoDst EXCEPT !.fail = "src->type > COLOR_NONE"]
    ELSE IF ~(col.type < COLOR_DUMMY_END)
    THEN [NoDst EXCEPT !.fail = "src->type < COLOR_DUMMY_END"]
    ELSE Accessor(ExtractAt(col.type), col)

(* The caller reads the components of a value it is not converting. *)
Extract(t) ==
    /\ pc[t] \in {"idle", "done"}
    /\ ~dst[t].set /\ dst[t].fail = ""
    /\ dst' = [dst EXCEPT ![t] = color_extract_components(c[t])]
    /\ UNCHANGED <<c, new_type, new_extra, pc, hops, trace, failed, src, orig, fin>>

----------------------------------------------------------------------------
(* The values and arguments a caller passes in. *)

----------------------------------------------------------------------------
(* A caller converting a value and then converting it back. *)

(* fin while finish_HSL_to_RGB is not being looked at on its own. *)
NoFin == [pc |-> "none", h |-> 0, C |-> 0, m |-> 0, idx |-> 0, RGB |-> <<0, 0, 0>>]

(* orig before any way back. *)
NoOrig == [set |-> FALSE, type |-> COLOR_NONE, extra |-> 0, v |-> <<0, 0, 0>>]

(* After color_convert(&c, X, f) has returned, the caller calls
   color_convert(&c, S, e) with the space S and the flags e the value had
   before. *)
Again(t) ==
    /\ pc[t] = "done" /\ ~orig[t].set
    /\ orig' = [orig EXCEPT ![t] = [set |-> TRUE, type |-> src[t].type,
                                    extra |-> src[t].extra, v |-> src[t].v]]
    /\ src' = [src EXCEPT ![t] = c[t]]
    /\ new_type' = [new_type EXCEPT ![t] = src[t].type]
    /\ new_extra' = [new_extra EXCEPT ![t] = src[t].extra]
    /\ pc' = [pc EXCEPT ![t] = "idle"]
    /\ hops' = [hops EXCEPT ![t] = 0]
    /\ trace' = [trace EXCEPT ![t] = <<>>]
    /\ UNCHANGED <<c, failed, dst, fin>>

(* Payload fields are sampled at the levels 0 .. MaxLevel of their range. *)
MaxLevel == 2

(* The largest extra / new_extra byte tried where the byte is unrestricted. *)
MaxFlagByte == 8

Levels == 0 .. MaxLevel

FlagBytes == 0 .. MaxFlagByte

(* The flags that mean something for a space: a matrix for YUV, a matrix
   and the range bit for YCbCr, nothing elsewhere. *)
FlagsFor(t) ==
    IF t = COLOR_YUV THEN 0 .. COLOR_YUV_MAT_MASK
    ELSE IF t = COLOR_YCBCR THEN 0 .. (COLOR_YUV_MAT_MASK + COLOR_YCBCR_FULL_RANGE)
    ELSE {0}

(* Field i of a payload of space t at level l: codes 0..255 for the uint8_t
   spaces, Y in [0,1], U in [-0.436,0.436], V in [-0.615,0.615] for YUV,
   hue in [0,6) for HSL and HSV, [0,1] elsewhere. *)
SlotValue(t, i, l) ==
    IF t \in {COLOR_RGB8, COLOR_YCBCR} THEN (255 * l) \div MaxLevel
    ELSE IF t = COLOR_YUV /\ i = 2 THEN (436 * Unit * (2 * l - MaxLevel)) \div (1000 * MaxLevel)
    ELSE IF t = COLOR_YUV /\ i = 3 THEN (615 * Unit * (2 * l - MaxLevel)) \div (1000 * MaxLevel)
    ELSE IF t \in {COLOR_HSL, COLOR_HSV} /\ i = 1 THEN (6 * Unit * l) \div (MaxLevel + 1)
    ELSE (Unit * l) \div MaxLevel

Payloads(t) ==
    { <<SlotValue(t, 1, a), SlotValue(t, 2, b), SlotValue(t, 3, d)>> :
        a \in Levels, b \in Levels, d \in Levels }

(* Fewer of them: the payloads with all three fields at the same level and
   one with three different fields. *)
FewPayloads(t) ==
    { <<SlotValue(t, 1, a), SlotValue(t, 2, a), SlotValue(t, 3, a)>> : a \in Levels }
      \cup { <<SlotValue(t, 1, 0), SlotValue(t, 2, MaxLevel), SlotValue(t, 3, 1)>> }

(* Tags a caller may wrongly pass: the two sentinels and a stray byte. *)
AnyTags == (COLOR_NONE .. COLOR_DUMMY_END) \cup {255}

Color(t, e, p) == [type |-> t, extra |-> e, v |-> p, sym |-> <<>>]

(* The state in which the calls of `start` (call id -> [c, nt, ne]) are
   about to be made. *)
Start(start) ==
    /\ c = [t \in DOMAIN start |-> start[t].c]
    /\ src = [t \in DOMAIN start |-> start[t].c]
    /\ new_type = [t \in DOMAIN start |-> start[t].nt]
    /\ new_extra = [t \in DOMAIN start |-> start[t].ne]
    /\ pc = [t \in DOMAIN start |-> "idle"]
    /\ hops = [t \in DOMAIN start |-> 0]
    /\ trace = [t \in DOMAIN start |-> <<>>]
    /\ failed = [t \in DOMAIN start |-> ""]
    /\ dst = [t \in DOMAIN start |-> NoDst]
    /\ orig = [t \in DOMAIN start |-> NoOrig]
    /\ fin = NoFin

(* One call: a valid value with flags that apply to its space, to a valid
   target with flags that apply to it. *)
Init ==
    \E t \in Spaces, nt \in Spaces :
      \E e \in FlagsFor(t), p \in Payloads(t), ne \in FlagsFor(nt) :
        Start(<< [c |-> Color(t, e, p), nt |-> nt, ne |-> ne] >>)

(* One call: any tag and any flag byte, in the value and in the arguments. *)
InitAny ==
    \E t \in AnyTags, nt \in AnyTags :
      \E e \in FlagBytes, p \in FewPayloads(t), ne \in FlagBytes :
        Start(<< [c |-> Color(t, e, p), nt |-> nt, ne |-> ne] >>)

(* The payload of space t with three different fields. *)
Mixed(t) == <<SlotValue(t, 1, 0), SlotValue(t, 2, MaxLevel), SlotValue(t, 3, 1)>>

(* Calls another thread may be making meanwhile: the longest route, a flag
   re-parameterization, and a route out of the video spaces. *)
Companions ==
    { [c |-> Color(COLOR_LSHUV, 0, Mixed(COLOR_LSHUV)), nt |-> COLOR_YCBCR, ne |-> 5],
      [c |-> Color(COLOR_YUV, 0, Mixed(COLOR_YUV)), nt |-> COLOR_YUV, ne |-> 1],
      [c |-> Color(COLOR_YCBCR, 4, Mixed(COLOR_YCBCR)), nt |-> COLOR_HSL, ne |-> 0] }

(* Two threads, each converting a value of its own: any valid call with
   applicable flags beside one of the companions. *)
InitTwo ==
    \E t \in Spaces, nt \in Spaces :
      \E e \in FlagsFor(t), p \in FewPayloads(t), ne \in FlagsFor(nt) :
        \E other \in Companions :
          Start(<< [c |-> Color(t, e, p), nt |-> nt, ne |-> ne], other >>)

(* Two calls with the same arguments on two values of the same space:
   either the same flags and different payloads, or the same payload of a
   space other than YUV and YCbCr, one with extra 0 and one with any other
   byte. *)
InitPair ==
    \E t \in Spaces, nt \in Spaces :
      \E ne \in FlagsFor(nt) :
        \/ \E e \in FlagsFor(t), p1 \in FewPayloads(t), p2 \in FewPayloads(t) :
             /\ p1 # p2
             /\ Start(<< [c |-> Color(t, e, p1), nt |-> nt, ne |-> ne],
                         [c |-> Color(t, e, p2), nt |-> nt, ne |-> ne] >>)
        \/ \E e2 \in FlagBytes \ {0}, p \in FewPayloads(t) :
             /\ t \notin {COLOR_YUV, COLOR_YCBCR}
             /\ Start(<< [c |-> Color(t, 0, p), nt |-> nt, ne |-> ne],
                         [c |-> Color(t, e2, p), nt |-> nt, ne |-> ne] >>)

DoEnter == \E t \in Calls : Enter(t)

DoIterate == \E t \in Calls : Iterate(t)

DoReturn == \E t \in Calls : Return(t)

DoExtract == \E t \in Calls : Extract(t)

NextConvert == DoEnter \/ DoIterate \/ DoReturn

Next == DoEnter \/ DoIterate \/ DoReturn \/ DoExtract

Spec == Init /\ [][Next]_vars

SpecAny == InitAny /\ [][Next]_vars

SpecPair == InitPair /\ [][NextConvert]_vars

SpecTwo == InitTwo /\ [][NextConvert]_vars

DoAgain == \E t \in Calls : Again(t)

NextRound == DoEnter \/ DoIterate \/ DoReturn \/ DoAgain

SpecRound == Init /\ [][NextRound]_vars

----------------------------------------------------------------------------
(* finish_HSL_to_RGB in floating point.

   The arithmetic above is exact on a grid of 1/Unit.  A double is not: it
   keeps a fixed number of significant bits, so the spacing of the doubles
   grows with their magnitude and a sum is rounded to the nearest of them.
   Here a double keeps MantissaBits significant bits (53 in the build) and
   is written as the integer n for the value n / One; every operation
   rounds to nearest, ties to even, as the build's does. *)

(* Significant bits of a double. *)
MantissaBits == 7

(* The finest double looked at is 2^-FracBits. *)
FracBits == 10

(* Hues from -MaxHue to MaxHue are looked at. *)
MaxHue == 16

(* 1.0 *)
One == 2 ^ FracBits

(* The largest power of two not above a, a >= 1. *)
RECURSIVE TopBit(_)
TopBit(a) == IF a < 2 THEN 1 ELSE 2 * TopBit(a \div 2)

(* The spacing of the doubles around a, in the units (1 / s) a is in. *)
Spacing(a, s) == Max2(TopBit(a) \div 2 ^ (MantissaBits - 1), s \div One)

(* a / Spacing rounded to the nearest integer, ties to even. *)
NearestEven(a, ulp) ==
    IF 2 * (a % ulp) > ulp \/ (2 * (a % ulp) = ulp /\ (a \div ulp) % 2 = 1)
    THEN a \div ulp + 1
    ELSE a \div ulp

(* The double nearest to x / s, s a multiple of One. *)
RoundTo(x, s) ==
    IF x = 0 THEN 0
    ELSE IF x > 0
    THEN (NearestEven(x, Spacing(x, s)) * Spacing(x, s)) \div (s \div One)
    ELSE -((NearestEven(-x, Spacing(-x, s)) * Spacing(-x, s)) \div (s \div One))

(* a + b and a * b of two doubles. *)
DoubleAdd(a, b) == RoundTo(a + b, One)

DoubleMul(a, b) == RoundTo(a * b, One * One)

(* floor() of a double, and its conversion (int), which truncates. *)
Floor(a) == (a \div One) * One

IntCast(a) == IF a >= 0 THEN a \div One ELSE -((-a) \div One)

(* The constant 1.0 / 6.0 as the compiler folds it. *)
Sixth == RoundTo(2 * ((One * One) \div 6) + 1, 2 * One * One)

(* idx = (int)(absh >= 6.0 ? floor(h * (1.0 / 6.0)) * -6.0 + h
                           : h < 0.0 ? h + 6.0 : h) *)
HueSectorDouble(h) ==
    IntCast(IF Abs(h) >= 6 * One
            THEN DoubleAdd(DoubleMul(Floor(DoubleMul(h, Sixth)), -6 * One), h)
            ELSE IF h < 0 THEN DoubleAdd(h, 6 * One)
            ELSE h)

(* h2 = absh >= 2.0 ? floor(h * 0.5) * -2.0 + h - 1.0
                    : h < 0.0 ? h + 1.0 : h - 1.0;  h2 = 1.0 - fabs(h2) *)
HueWaveDouble(h) ==
    DoubleAdd(One,
              -Abs(IF Abs(h) >= 2 * One
                   THEN DoubleAdd(DoubleAdd(DoubleMul(Floor(DoubleMul(h, One \div 2)),
                                                      -2 * One), h), -One)
                   ELSE IF h < 0 THEN DoubleAdd(h, One)
                   ELSE DoubleAdd(h, -One)))

(* vars[0] = C + m; vars[1] = m; vars[2] = C * h2 + m *)
FinishVars(h, C, m) ==
    << DoubleAdd(C, m), m, DoubleAdd(DoubleMul(C, HueWaveDouble(h)), m) >>

(* The doubles from -MaxHue to MaxHue. *)
Doubles ==
    { n \in (-MaxHue * One) .. (MaxHue * One) : RoundTo(n, One) = n }

(* One call finish_HSL_to_RGB(c, h, C, m) about to be made, no call of
   color_convert beside it. *)
InitFinish ==
    /\ c = <<>> /\ src = <<>> /\ new_type = <<>> /\ new_extra = <<>>
    /\ pc = <<>> /\ hops = <<>> /\ trace = <<>> /\ failed = <<>>
    /\ dst = <<>> /\ orig = <<>>
    /\ \E h \in Doubles, C \in {One, One \div 2}, m \in {0, One \div 4} :
         fin = [pc |-> "call", h |-> h, C |-> C, m |-> m, idx |-> 0,
                RGB |-> <<0, 0, 0>>]

(* finish_HSL_to_RGB: idx, the assertion on it, the three stores. *)
Finish ==
    /\ fin.pc = "call"
    /\ fin' =
         IF ~(HueSectorDouble(fin.h) >= 0 /\ HueSectorDouble(fin.h) <= 5)
         THEN [fin EXCEPT !.pc = "aborted", !.idx = HueSectorDouble(fin.h)]
         ELSE [fin EXCEPT
                 !.pc = "done", !.idx = HueSectorDouble(fin.h),
                 !.RGB = << FinishVars(fin.h, fin.C, fin.m)
                              [rgb_tbl[HueSectorDouble(fin.h) + 1][1]],
                            FinishVars(fin.h, fin.C, fin.m)
                              [rgb_tbl[HueSectorDouble(fin.h) + 1][2]],
                            FinishVars(fin.h, fin.C, fin.m)
                              [rgb_tbl[HueSectorDouble(fin.h) + 1][3]] >>]
    /\ UNCHANGED <<c, new_type, new_extra, pc, hops, trace, failed, dst, src, orig>>

SpecFinish == InitFinish /\ [][Finish]_vars

----------------------------------------------------------------------------
(* Properties *)

(* The call returned normally. *)
Returned(t) == pc[t] = "done"

(* The call was stopped by an assertion. *)
Aborted(t) == pc[t] = "aborted"

(* The postcondition of color_convert. *)
Post(t) == c[t].type = new_type[t] /\ c[t].extra = new_extra[t]

(* C1 (totality): from every valid space with flags that apply to it, to
   every valid space with flags that apply to it, color_convert terminates,
   no assertion fails on the way, and on return c->type == new_type and
   c->extra == new_extra.  Termination: every pass through the loop calls
   one more edge function, a call never makes more of them than there are
   spaces, and a call that has not returned is at a point where Enter,
   Iterate or Return can act. *)
C1_Totality ==
    /\ [](\A t \in Calls :
            /\ ~Aborted(t) /\ failed[t] = ""
            /\ pc[t] \in {"idle", "loop", "done"}
            /\ hops[t] <= COLOR_DUMMY_END - 1
            /\ Returned(t) => Post(t))
    /\ [][\A t \in Calls :
            (pc[t] = "loop" /\ c'[t] # c[t]) => hops'[t] = hops[t] + 1]_vars
    /\ [][\A t \in Calls :
            (pc[t] = "loop" /\ pc'[t] = "loop") => hops'[t] = hops[t] + 1]_vars

(* The longest route, LSHuv to full-range Rec. 709 YCbCr, has returned. *)
C1_Witness ==
    \E t \in Calls :
      /\ Returned(t) /\ Post(t)
      /\ src[t].type = COLOR_LSHUV /\ new_type[t] = COLOR_YCBCR /\ new_extra[t] = 5

(* C2 (postcondition under the stated precondition only): for every value
   with a valid tag (here with flags that apply to its space), every valid
   target space and every target flags byte, color_convert returns with
   c->type == new_type and c->extra == new_extra, no assertion fails, and
   the direct-edge table is never indexed with a COLOR_NONE next hop. *)
C2_Postcondition ==
    \A t \in Calls :
      ( /\ src[t].type \in Spaces /\ src[t].extra \in FlagsFor(src[t].type)
        /\ new_type[t] \in Spaces )
        => /\ ~Aborted(t) /\ failed[t] = ""
           /\ Returned(t) => Post(t)

(* C3 (idempotence): a call on a value that already has the target space
   and the target flags runs the loop body zero times, calls no edge
   function, is not stopped by an assertion and leaves tag, flags and
   payload as they were. *)
C3_Idempotent ==
    \A t \in Calls :
      (new_type[t] \in Spaces /\ src[t].type = new_type[t] /\ src[t].extra = new_extra[t])
        => /\ hops[t] = 0 /\ trace[t] = <<>>
           /\ c[t] = src[t]
           /\ ~Aborted(t)
           /\ pc[t] \in {"idle", "loop", "done"}

(* Such a call on a YUV value, the space with a self-edge, has returned. *)
C3_Witness ==
    \E t \in Calls :
      /\ Returned(t) /\ hops[t] = 0
      /\ src[t].type = COLOR_YUV /\ new_type[t] = COLOR_YUV
      /\ src[t].extra = 1 /\ new_extra[t] = 1

(* C4 as claimed (hop bound): color_convert calls at most three edge
   functions. *)
C4_ThreeHops == \A t \in Calls : hops[t] <= 3

(* C4 as amended: color_convert calls at most seven edge functions. *)
C4_SevenHops == \A t \in Calls : hops[t] <= 7

(* A call that needed seven has returned. *)
C4_Witness == \E t \in Calls : Returned(t) /\ hops[t] = 7

(* Both calls of a pair have ended, by a return or by an assertion. *)
BothEnded == \A t \in Calls : pc[t] \in {"done", "aborted"}

(* C5 (source flags ignored outside YUV and YCbCr): two calls with the same
   arguments on values of the same space, neither YUV nor YCbCr, with the
   same payload, end the same way whatever the extra byte of each value:
   both return or both are stopped, with the same final type, extra and
   payload. *)
C5_SourceFlagsIgnored ==
    ( /\ Len(pc) = 2 /\ BothEnded
      /\ src[1].type = src[2].type /\ src[1].v = src[2].v
      /\ src[1].type \notin {COLOR_YUV, COLOR_YCBCR} )
      => pc[1] = pc[2] /\ c[1] = c[2]

(* C6 (flag canonicalization): at every point of a call between applicable
   flags, so after every edge function, extra is 0 when the value's space is
   neither YUV nor YCbCr, and the range bit is 0 when it is YUV. *)
C6_CanonicalFlags ==
    \A t \in Calls :
      /\ c[t].type \notin {COLOR_YUV, COLOR_YCBCR} => c[t].extra = 0
      /\ c[t].type = COLOR_YUV => RangeBit(c[t].extra) = 0

(* The first n entries of a sequence. *)
Prefix(s, n) == SubSeq(s, 1, n)

(* C7 (determinism of the route): two calls with the same source space,
   source flags, target space and target flags, on different payloads,
   apply the same edge functions in the same order with the same
   (type, extra) after each: at every moment the shorter of the two
   histories is the beginning of the longer, and once both calls have ended
   they have ended the same way with the same history. *)
C7_RouteDeterminism ==
    ( /\ Len(pc) = 2
      /\ src[1].type = src[2].type /\ src[1].extra = src[2].extra
      /\ new_type[1] = new_type[2] /\ new_extra[1] = new_extra[2] )
      => /\ Prefix(trace[1], Min2(hops[1], hops[2]))
              = Prefix(trace[2], Min2(hops[1], hops[2]))
         /\ BothEnded => pc[1] = pc[2] /\ trace[1] = trace[2]

(* Two such calls on different payloads have both returned after at least
   two edge functions each. *)
C7_Witness ==
    /\ Len(pc) = 2 /\ Returned(1) /\ Returned(2)
    /\ src[1].type = src[2].type /\ src[1].extra = src[2].extra
    /\ src[1].v # src[2].v
    /\ hops[1] >= 2 /\ trace[1] = trace[2]

(* YUV -> RGB under matrix m, from yuv_to_rgb. *)
YUVDecode(m, yuv) ==
    << Dot3(yuv[1], CoefUnit, yuv[3], yuv_to_rgb[m + 1][1], 0, 0),
       Dot3(yuv[1], CoefUnit, yuv[2], yuv_to_rgb[m + 1][2], yuv[3], yuv_to_rgb[m + 1][3]),
       Dot3(yuv[1], CoefUnit, yuv[2], yuv_to_rgb[m + 1][4], 0, 0) >>

(* RGB -> YUV under matrix m, from rgb_to_yuv. *)
YUVEncode(m, rgb) ==
    << Dot3(rgb[1], rgb_to_yuv[m + 1][1], rgb[2], rgb_to_yuv[m + 1][2],
            rgb[3], rgb_to_yuv[m + 1][3]),
       Dot3(rgb[1], rgb_to_yuv[m + 1][4], rgb[2], rgb_to_yuv[m + 1][5], rgb[3], 43600),
       Dot3(rgb[1], 61500, rgb[2], rgb_to_yuv[m + 1][6], rgb[3], rgb_to_yuv[m + 1][7]) >>

(* A call that takes a YUV value with matrix m to YUV with another matrix. *)
Reparameterizes(t) ==
    /\ src[t].type = COLOR_YUV /\ new_type[t] = COLOR_YUV
    /\ src[t].extra \in 0 .. COLOR_YUV_MAT_MASK
    /\ new_extra[t] \in 0 .. COLOR_YUV_MAT_MASK
    /\ src[t].extra # new_extra[t]

(* C8 (flags re-parameterization): a YUV value with matrix m converted to
   YUV with a matrix m' other than m goes through the loop once, by the
   self-edge color_YUV_to_YUV, and comes back with extra == m' and the
   payload RGB->YUV under m' of YUV->RGB under m of the payload it had. *)
C8_Reparameterization ==
    \A t \in Calls :
      Reparameterizes(t)
        => /\ hops[t] <= 1
           /\ ~Aborted(t)
           /\ Returned(t) =>
                /\ hops[t] = 1
                /\ trace[t] = << <<"color_YUV_to_YUV", COLOR_YUV, new_extra[t]>> >>
                /\ c[t].extra = new_extra[t] /\ c[t].type = COLOR_YUV
                /\ c[t].sym = <<>>
                /\ c[t].v = YUVEncode(new_extra[t], YUVDecode(src[t].extra, src[t].v))

(* A Rec. 601 value came back as Rec. 709 with other chroma. *)
C8_Witness ==
    \E t \in Calls :
      /\ Reparameterizes(t) /\ Returned(t)
      /\ src[t].extra = 0 /\ new_extra[t] = 1
      /\ c[t].v # src[t].v

(* The assertions of color_convert on its arguments and on the value's tag. *)
PreconditionAsserts ==
    { "new_type > COLOR_NONE", "new_type < COLOR_DUMMY_END",
      "c->type > COLOR_NONE", "c->type < COLOR_DUMMY_END" }

(* C9 (fail-fast): a call whose target space is COLOR_NONE or at least
   COLOR_DUMMY_END, or whose value carries such a tag, never returns and
   never calls an edge function; the only way it goes on is into one of
   the assertions on new_type and c->type, and the value's type, extra and
   payload stay as they were. *)
C9_FailFast ==
    \A t \in Calls :
      (new_type[t] \notin Spaces \/ src[t].type \notin Spaces)
        => /\ c[t] = src[t]
           /\ hops[t] = 0 /\ trace[t] = <<>>
           /\ ~Returned(t)
           /\ IF Aborted(t) THEN failed[t] \in PreconditionAsserts
                            ELSE failed[t] = "" /\ pc[t] \in {"idle", "loop"}

(* A value with a stray tag was rejected on its way to a valid space, or
   a valid value was rejected on its way to COLOR_DUMMY_END. *)
C9_Witness ==
    \E t \in Calls :
      /\ Aborted(t)
      /\ \/ src[t].type = 255 /\ new_type[t] \in Spaces
            /\ failed[t] = "c->type < COLOR_DUMMY_END"
         \/ src[t].type \in Spaces /\ new_type[t] = COLOR_DUMMY_END
            /\ failed[t] = "new_type < COLOR_DUMMY_END"

(* C10 (extraction is a read-only projection): a step that writes dst for
   a value with a valid tag leaves the value's type, extra and payload and
   the state of the call as they were, goes through the accessor that
   asserts the value's tag, fails no assertion, and writes the three
   fields of the value's space in declaration order. *)
C10_ExtractReadOnly ==
    [][ \A t \in Calls :
          (dst'[t] # dst[t] /\ c[t].type \in Spaces)
            => /\ c'[t] = c[t] /\ pc'[t] = pc[t]
               /\ AccessorTag(ExtractAt(c[t].type)) = c[t].type
               /\ dst'[t].set /\ dst'[t].fail = ""
               /\ dst'[t].sym = c[t].sym
               /\ dst'[t].v = << AsDouble(c[t].type, c[t].v[1]),
                                 AsDouble(c[t].type, c[t].v[2]),
                                 AsDouble(c[t].type, c[t].v[3]) >> ]_vars

(* The components of a YCbCr value a conversion returned were read. *)
C10_Witness ==
    \E t \in Calls :
      /\ Returned(t) /\ c[t].type = COLOR_YCBCR /\ src[t].type # COLOR_YCBCR
      /\ dst[t].set
      /\ dst[t].v[2] # dst[t].v[3]

RECURSIVE RunAlone(_, _, _, _)

(* What follows a pass through the loop body in a call running alone. *)
RunOn(r, nt, ne, n) ==
    IF r.fail # "" THEN [c |-> r.c, pc |-> "aborted"] ELSE RunAlone(r.c, nt, ne, n)

(* color_convert(c, nt, ne) run by itself from the head of its loop, for
   at most n passes: the struct it leaves and how it ends. *)
RunAlone(col, nt, ne, n) ==
    IF ~LoopCond(col, nt, ne) THEN [c |-> col, pc |-> "done"]
    ELSE IF n = 0 THEN [c |-> col, pc |-> "loop"]
    ELSE RunOn(LoopBody(col, nt, ne), nt, ne, n - 1)

(* C11 (thread independence): with two calls on distinct values
   interleaved edge by edge, each call ends with the type, extra and
   payload it has when run alone, and a step of one call changes nothing
   of the other call: not its struct, its position, its count or history
   of edges, nor its arguments. *)
C11_ThreadIndependence ==
    /\ [](\A t \in Calls :
            pc[t] \in {"done", "aborted"}
              => /\ c[t] = RunAlone(src[t], new_type[t], new_extra[t],
                                    COLOR_DUMMY_END).c
                 /\ pc[t] = RunAlone(src[t], new_type[t], new_extra[t],
                                     COLOR_DUMMY_END).pc)
    /\ [][\A t \in Calls, u \in Calls :
            (t # u /\ (pc'[t] # pc[t] \/ c'[t] # c[t]))
              => /\ c'[u] = c[u] /\ pc'[u] = pc[u]
                 /\ hops'[u] = hops[u] /\ trace'[u] = trace[u]
                 /\ failed'[u] = failed[u]
                 /\ new_type'[u] = new_type[u] /\ new_extra'[u] = new_extra[u]]_vars

(* Two calls between different spaces, interleaved, have both returned,
   the first after at least two edges. *)
C11_Witness ==
    /\ Len(pc) = 2 /\ Returned(1) /\ Returned(2)
    /\ hops[1] >= 2 /\ hops[2] >= 1
    /\ src[1].type # src[2].type
    /\ c[1].type # c[2].type

(* A call that applies the YUV -> YCbCr edge to the value passed in as it
   is: a YUV value converted to YCbCr with the matrix it already has. *)
EncodesCodes(t) ==
    /\ src[t].type = COLOR_YUV /\ new_type[t] = COLOR_YCBCR
    /\ MatrixOf(src[t].extra) = MatrixOf(new_extra[t])
    /\ Returned(t)

(* C12 (YCbCr code ranges): for a YUV value with Y in [0,1], U in
   [-0.436,0.436] and V in [-0.615,0.615], the YUV -> YCbCr edge gives, in
   studio range, a luma code in [16,235] and Cb and Cr codes in [16,240],
   and in full range codes in [0,255]. *)
C12_CodeRanges ==
    \A t \in Calls :
      EncodesCodes(t)
        => IF RangeBit(new_extra[t]) = 0
           THEN /\ c[t].v[1] \in 16 .. 235
                /\ c[t].v[2] \in 16 .. 240
                /\ c[t].v[3] \in 16 .. 240
           ELSE \A i \in 1 .. 3 : c[t].v[i] \in 0 .. 255

(* C13 (hue range): the hue H that the RGB -> HSL edge and the RGB -> HSV
   edge write lies in [0, 6), for every RGB triple. *)
C13_HueRange ==
    \A t \in Calls :
      ( /\ src[t].type = COLOR_RGB /\ new_type[t] \in {COLOR_HSL, COLOR_HSV}
        /\ Returned(t) /\ c[t].sym = <<>> )
        => c[t].v[1] >= 0 /\ c[t].v[1] < 6 * Unit

(* A gray RGB value. *)
Gray(col) == col.type = COLOR_RGB /\ col.v[1] = col.v[2] /\ col.v[2] = col.v[3]

(* C14 (achromatic edge case): a gray RGB value (x, x, x) converted to HSL
   comes back as H = 0, S = 0, L = x, converted to HSV as H = 0, S = 0,
   V = x, exactly; and that HSL or HSV value converted back to RGB comes
   back as (x, x, x). *)
C14_Achromatic ==
    \A t \in Calls :
      /\ ( /\ ~orig[t].set /\ Gray(src[t]) /\ Returned(t)
           /\ new_type[t] \in {COLOR_HSL, COLOR_HSV} )
           => /\ c[t].type = new_type[t] /\ c[t].sym = <<>>
              /\ c[t].v = <<0, 0, src[t].v[1]>>
      /\ ( /\ orig[t].set /\ orig[t].type = COLOR_RGB
           /\ orig[t].v[1] = orig[t].v[2] /\ orig[t].v[2] = orig[t].v[3]
           /\ src[t].type \in {COLOR_HSL, COLOR_HSV} )
           => /\ ~Aborted(t)
              /\ Returned(t) => /\ c[t].type = COLOR_RGB /\ c[t].sym = <<>>
                                /\ c[t].v = orig[t].v

(* RGB (0.5, 0.5, 0.5) went to HSL (0, 0, 0.5) and came back. *)
C14_Witness ==
    \E t \in Calls :
      /\ orig[t].set /\ orig[t].type = COLOR_RGB
      /\ orig[t].v = <<Unit \div 2, Unit \div 2, Unit \div 2>>
      /\ src[t].type = COLOR_HSL /\ src[t].v = <<0, 0, Unit \div 2>>
      /\ Returned(t) /\ c[t].v = orig[t].v

(* Call t has brought an RGB value back from the quantized space X. *)
BackFrom(t, X) ==
    /\ orig[t].set /\ orig[t].type = COLOR_RGB
    /\ src[t].type = X
    /\ Returned(t) /\ c[t].type = COLOR_RGB /\ c[t].sym = <<>>

(* Every channel of call t is within n code values (n/255) of the channel
   the caller started from. *)
WithinCodes(t, n) ==
    \A i \in 1 .. 3 : 255 * Abs(c[t].v[i] - orig[t].v[i]) <= n * Unit

(* C15 as claimed (round trip through an 8-bit space): RGB -> X -> RGB,
   for X = RGB8 and X = YCbCr with any matrix and either range, gives back
   each of R, G, B within one code value (1/255). *)
C15_OneCode ==
    \A t \in Calls :
      (BackFrom(t, COLOR_RGB8) \/ BackFrom(t, COLOR_YCBCR)) => WithinCodes(t, 1)

(* C15 as amended: the way back never fails an assertion; through RGB8
   each channel comes back within one code value, through YCbCr within
   two. *)
C15_TwoCodes ==
    \A t \in Calls :
      /\ (orig[t].set /\ orig[t].type = COLOR_RGB
            /\ src[t].type \in {COLOR_RGB8, COLOR_YCBCR}) => ~Aborted(t)
      /\ BackFrom(t, COLOR_RGB8) => WithinCodes(t, 1)
      /\ BackFrom(t, COLOR_YCBCR) => WithinCodes(t, 2)

(* A value came back from studio-range YCbCr more than one code value off
   in some channel. *)
C15_Witness ==
    \E t \in Calls :
      /\ BackFrom(t, COLOR_YCBCR) /\ RangeBit(src[t].extra) = 0
      /\ WithinCodes(t, 2) /\ ~WithinCodes(t, 1)

(* Slot [S][D] of the two tables is filled as the engine needs it: a
   function and no next hop, or no function and a next hop P, a valid
   space, with a function at [S][P]. *)
SlotComplete(S, D) ==
    \/ FuncAt(S, D) # "NULL" /\ ProxyAt(S, D) = COLOR_NONE
    \/ /\ FuncAt(S, D) = "NULL"
       /\ ProxyAt(S, D) \in Spaces
       /\ FuncAt(S, ProxyAt(S, D)) # "NULL"

(* All the slots between two different spaces are. *)
AllSlotsComplete == \A S \in Spaces, D \in Spaces : S # D => SlotComplete(S, D)

(* The assertions of the if(!func) branch. *)
ProxyAsserts == { "tmp_type > COLOR_NONE", "tmp_type < COLOR_DUMMY_END", "func != NULL" }

(* C16 (table completeness): every ordered pair of distinct valid spaces
   (S, D) has either a function at [S][D] of the direct-edge table and
   COLOR_NONE in the proxy table, or no function there and a valid next
   hop P with a function at [S][P]; so for the space a call is at and the
   space it is going to, when they differ, the lookup succeeds and the
   assertions on tmp_type and func never fail. *)
C16_TableComplete ==
    /\ AllSlotsComplete
    /\ \A t \in Calls :
         /\ (c[t].type \in Spaces /\ new_type[t] \in Spaces
               /\ c[t].type # new_type[t]) => SlotComplete(c[t].type, new_type[t])
         /\ failed[t] \notin ProxyAsserts

(* A call with no direct edge to its target has taken the next hop of the
   proxy table and then gone on to return. *)
C16_Witness ==
    \E t \in Calls :
      /\ Returned(t) /\ hops[t] >= 2
      /\ FuncAt(src[t].type, new_type[t]) = "NULL"
      /\ trace[t][1][2] = ProxyAt(src[t].type, new_type[t])
      /\ src[t].type = COLOR_XYY /\ new_type[t] = COLOR_RGB8

(* The entry and the exit assertion of the two self-edges. *)
SelfEdgeAsserts == { "c->extra != extra", "c->extra == extra" }

(* c->extra as edge i of call t found it. *)
ExtraBefore(t, i) == IF i = 1 THEN src[t].extra ELSE trace[t][i - 1][3]

(* Edge i of call t called color_YUV_to_YUV inside itself: it is one of
   the two edges between YUV and YCbCr and found a matrix other than the
   one asked for. *)
NestedSelfEdge(t, i) ==
    /\ trace[t][i][1] \in {"color_YUV_to_YCbCr", "color_YCbCr_to_YUV"}
    /\ MatrixOf(ExtraBefore(t, i)) # MatrixOf(new_extra[t])

(* C17 (self-edges are never a no-op): in every call from a valid start,
   neither the entry assertion c->extra != extra nor the exit assertion
   c->extra == extra of a self-edge fails; a self-edge called by the loop
   finds flags other than the ones asked for and leaves the ones asked
   for, and so does one called inside an edge between YUV and YCbCr. *)
C17_SelfEdges ==
    \A t \in Calls :
      /\ failed[t] \notin SelfEdgeAsserts
      /\ \A i \in 1 .. Len(trace[t]) :
           /\ trace[t][i][1] \in {"color_YUV_to_YUV", "color_YCbCr_to_YCbCr"}
                => /\ ExtraBefore(t, i) # new_extra[t]
                   /\ trace[t][i][3] = new_extra[t]
           /\ NestedSelfEdge(t, i)
                => /\ ExtraBefore(t, i) # new_extra[t]
                   /\ ClearRange(ExtraBefore(t, i)) # new_extra[t]
                   /\ trace[t][i][3] = new_extra[t]

(* A YCbCr value was re-parameterized by the loop's self-edge, with
   color_YUV_to_YUV called inside it for the change of matrix. *)
C17_Witness ==
    \E t \in Calls :
      /\ Returned(t) /\ hops[t] = 1
      /\ trace[t][1][1] = "color_YCbCr_to_YCbCr"
      /\ MatrixOf(src[t].extra) # MatrixOf(new_extra[t])
      /\ RangeBit(src[t].extra) = 1

(* The direct-edge graph: an edge from S to another space D where
   conversions[S][D] holds a function. *)
Edge(S, D) == S # D /\ FuncAt(S, D) # "NULL"

RECURSIVE Grow(_, _)

(* The spaces within k direct edges of the spaces of `set`. *)
Grow(set, k) ==
    IF k = 0 THEN set
    ELSE Grow(set \cup {D \in Spaces : \E S \in set : Edge(S, D)}, k - 1)

(* The least number of direct edges from S to D; COLOR_DUMMY_END when
   there is no path. *)
Distance ==
    [S \in Spaces |->
      [D \in Spaces |->
        IF D \notin Grow({S}, COLOR_DUMMY_END - 1) THEN COLOR_DUMMY_END
        ELSE CHOOSE k \in 0 .. (COLOR_DUMMY_END - 1) :
               /\ D \in Grow({S}, k)
               /\ k = 0 \/ D \notin Grow({S}, k - 1)]]

(* Every next hop of the proxy table is a valid space strictly nearer to
   the target than the space it is the next hop from. *)
NextHopsNearer ==
    \A S \in Spaces, D \in Spaces :
      (S # D /\ FuncAt(S, D) = "NULL")
        => /\ ProxyAt(S, D) \in Spaces
           /\ Distance[ProxyAt(S, D)][D] < Distance[S][D]

(* The spaces call t has been at, the one it started from first. *)
Visited(t) == <<src[t].type>> \o [i \in 1 .. Len(trace[t]) |-> trace[t][i][2]]

(* C18 (next-hop progress): for every ordered pair of distinct valid
   spaces (S, D) without a direct edge, the next hop of the proxy table is
   strictly nearer to D than S is, counted in direct edges; so a call
   between two different spaces never comes to a space twice, each of its
   edges brings it one edge nearer to the target, and it returns after as
   many edges as the shortest path has. *)
C18_NextHopProgress ==
    /\ NextHopsNearer
    /\ \A t \in Calls :
         src[t].type # new_type[t]
           => /\ \A i \in 1 .. Len(Visited(t)), j \in 1 .. Len(Visited(t)) :
                   i # j => Visited(t)[i] # Visited(t)[j]
              /\ \A i \in 1 .. Len(trace[t]) :
                   Distance[trace[t][i][2]][new_type[t]]
                     = Distance[src[t].type][new_type[t]] - i
              /\ Returned(t) => hops[t] = Distance[src[t].type][new_type[t]]

(* The call from LSHuv to YCbCr has returned after the seven edges of the
   shortest path. *)
C18_Witness ==
    \E t \in Calls :
      /\ Returned(t)
      /\ src[t].type = COLOR_LSHUV /\ new_type[t] = COLOR_YCBCR
      /\ Distance[COLOR_LSHUV][COLOR_YCBCR] = 7 /\ hops[t] = 7
      /\ new_extra[t] = 0

(* The function at slot [S][D], called on a value of space T with flags e
   and the argument ne. *)
SlotCall(S, D, T, e, ne) == Invoke(FuncAt(S, D), Color(T, e, Mixed(T)), ne)

(* Every function of the direct-edge table takes a value of its row's
   space to its column's space, and stops at an assertion on a value of
   any other space.  (The two self-edges are called with flags to change.) *)
SlotsConsistent ==
    \A S \in Spaces, D \in Spaces :
      FuncAt(S, D) # "NULL"
        => /\ \A e \in FlagsFor(S), ne \in FlagsFor(D) :
                (S # D \/ e # ne)
                  => /\ SlotCall(S, D, S, e, ne).fail = ""
                     /\ SlotCall(S, D, S, e, ne).c.type = D
           /\ \A T \in Spaces \ {S} : SlotCall(S, D, T, 0, 0).fail # ""

(* The single-step destination of the pass that made edge i of call t. *)
StepTarget(t, i) ==
    IF FuncAt(Visited(t)[i], new_type[t]) # "NULL" THEN new_type[t]
    ELSE ProxyAt(Visited(t)[i], new_type[t])

(* C19 (edge/slot consistency): every function stored at slot [S][D] of
   the direct-edge table requires the tag S on entry and leaves the tag D
   on return; so after every edge the loop applies the value's tag is the
   single-step destination of that pass, the target or the next hop, and
   neither an edge's assertion on the tag nor c->type == tmp_type fails. *)
C19_EdgeSlot ==
    /\ SlotsConsistent
    /\ \A t \in Calls :
         /\ failed[t] = ""
         /\ \A i \in 1 .. Len(trace[t]) :
              /\ trace[t][i][1] = FuncAt(Visited(t)[i], StepTarget(t, i))
              /\ trace[t][i][2] = StepTarget(t, i)

(* A call has gone through color_Luv_to_LCHuv, which borrows the Lab edge,
   and came out of it as LCHuv. *)
C19_Witness ==
    \E t \in Calls :
      /\ Returned(t) /\ hops[t] >= 2
      /\ \E i \in 1 .. Len(trace[t]) :
           /\ trace[t][i][1] = "color_Luv_to_LCHuv"
           /\ trace[t][i][2] = COLOR_LCHUV
           /\ StepTarget(t, i) = COLOR_LCHUV

(* A payload together with the encoding it was last given: the matrix its
   chroma was computed with and the range its codes were scaled to.  The
   flag byte of the struct is left out of it. *)
Described(col) ==
    [c |-> [col EXCEPT !.extra = 0],
     mat |-> MatrixOf(col.extra), rng |-> RangeBit(col.extra)]

(* RGB -> YUV under matrix m: the payload is now encoded with m. *)
EncodeMatrix(g, m) ==
    [c |-> IF Numeric(g.c)
           THEN [g.c EXCEPT !.type = COLOR_YUV, !.v = YUVEncode(m, g.c.v)]
           ELSE Opaque(g.c, COLOR_YUV, "color_RGB_to_YUV", m),
     mat |-> m, rng |-> g.rng]

(* YUV -> RGB under the matrix the payload was encoded with. *)
DecodeMatrix(g) ==
    [c |-> IF Numeric(g.c)
           THEN [g.c EXCEPT !.type = COLOR_RGB, !.v = YUVDecode(g.mat, g.c.v)]
           ELSE Opaque(g.c, COLOR_RGB, "color_YUV_to_RGB", g.mat),
     mat |-> g.mat, rng |-> g.rng]

(* A YUV payload brought to matrix m when it was encoded with another. *)
Rematrix(g, m) == IF g.mat # m THEN EncodeMatrix(DecodeMatrix(g), m) ELSE g

(* YUV -> codes of range r: the payload is now scaled to r. *)
ScaleRange(g, r) ==
    [c |-> [EncodeYCbCr(g.c, COLOR_YCBCR_FULL_RANGE * r).c EXCEPT !.extra = 0],
     mat |-> g.mat, rng |-> r]

(* Codes -> YUV from the range the payload was scaled to. *)
UnscaleRange(g) ==
    [c |-> [DecodeYCbCr([g.c EXCEPT !.extra = COLOR_YCBCR_FULL_RANGE * g.rng])
              EXCEPT !.extra = 0],
     mat |-> g.mat, rng |-> g.rng]

(* What edge `func` called with target flags ne does to a described
   payload: the decoding steps go by the encoding the payload has, the
   encoding steps by ne; the edges of the other spaces do what they do to
   the struct. *)
DescribedEdge(func, g, ne) ==
    CASE func = "color_RGB_to_YUV" -> EncodeMatrix(g, MatrixOf(ne))
      [] func = "color_YUV_to_RGB" -> DecodeMatrix(g)
      [] func = "color_YUV_to_YUV" -> EncodeMatrix(DecodeMatrix(g), MatrixOf(ne))
      [] func = "color_YUV_to_YCbCr" ->
           ScaleRange(Rematrix(g, MatrixOf(ne)), RangeBit(ne))
      [] func = "color_YCbCr_to_YUV" -> Rematrix(UnscaleRange(g), MatrixOf(ne))
      [] func = "color_YCbCr_to_YCbCr" ->
           ScaleRange(Rematrix(UnscaleRange(g), MatrixOf(ne)), RangeBit(ne))
      [] OTHER -> [g EXCEPT !.c = Invoke(func, g.c, 0).c]

(* The described payload after the first i edges of call t. *)
RECURSIVE DescribedAfter(_, _)
DescribedAfter(t, i) ==
    IF i = 0 THEN Described(src[t])
    ELSE DescribedEdge(trace[t][i][1], DescribedAfter(t, i - 1), new_extra[t])

(* The struct col carries the described payload g and flags that say how
   it is encoded. *)
FlagsDescribe(col, g) ==
    /\ col.type = g.c.type /\ col.v = g.c.v /\ col.sym = g.c.sym
    /\ col.type \in {COLOR_YUV, COLOR_YCBCR} => MatrixOf(col.extra) = g.mat
    /\ col.type = COLOR_YCBCR => RangeBit(col.extra) = g.rng

(* C20 (flags describe the payload): in a call on a value whose flags say
   how its payload is encoded, after every edge the struct holds the
   payload that results when each decoding step (YUV->RGB, YCbCr->YUV)
   goes by the encoding the payload then has and each encoding step
   (RGB->YUV, YUV->YCbCr) by the target flags; while the space is YUV or
   YCbCr the matrix bits of extra are the matrix the payload was last
   encoded with, and while it is YCbCr the range bit is the range it was
   last scaled to. *)
C20_FlagsDescribe ==
    \A t \in Calls :
      failed[t] = "" => FlagsDescribe(c[t], DescribedAfter(t, Len(trace[t])))

(* A full-range YCbCr value of one matrix has come back as studio range
   of another matrix, with other codes. *)
C20_Witness ==
    \E t \in Calls :
      /\ Returned(t) /\ hops[t] >= 1 /\ c[t].type = COLOR_YCBCR
      /\ src[t].type = COLOR_YCBCR
      /\ RangeBit(src[t].extra) = 1 /\ RangeBit(c[t].extra) = 0
      /\ MatrixOf(src[t].extra) # MatrixOf(c[t].extra)
      /\ c[t].v # src[t].v

(* C21 as claimed (hue sector index): for every finite hue h passed to
   finish_HSL_to_RGB, negative hues and hues of 6 and more included, the
   assertion idx >= 0 && idx <= 5 does not fail, idx lies in 0 .. 5, and
   idx is floor(h mod 6). *)
C21_SectorIndex ==
    fin.pc \in {"done", "aborted"}
      => /\ fin.pc = "done"
         /\ fin.idx \in 0 .. 5
         /\ fin.idx = (fin.h % (6 * One)) \div One

====
